---- MODULE Spec2Model ----
(***************************************************************************)
(* Model of the multi-session terminal: the file-backed lock table of      *)
(* terminal.py, the mutating commands of run_command that use it, and the  *)
(* per-session history files of history.py / enhanced_history.py.          *)
(*                                                                         *)
(* Every session is a separate OS process running the REPL of main.py.     *)
(* The processes share data/resource_locks.json, the filesystem and the    *)
(* history files; a step of the model is one read or one write of a whole  *)
(* file (json.load / json.dump), or one filesystem operation.              *)
(*                                                                         *)
(* The Session Store of session_manager.py, the input classification of    *)
(* unified_processor.py and the loop of main.py are modelled at the level   *)
(* of one call or one input line per step, over the data directories of    *)
(* two working directories.                                                *)
(***************************************************************************)
EXTENDS Integers, Sequences, FiniteSets, TLC

\* ---------------------------------------------------------------- bounds
Sessions == {"A", "B"}
Paths == {"p1", "p2"}
\* time.time() is sampled in seconds; the clock stops at MaxTime
MaxTime == 301

\* ------------------------------------------------------------- constants
\* terminal.py:45  "current_time - timestamp > 300"
EXPIRY == 300
\* between two calls to the lock manager the clock advances by one of these
\* amounts: as long as the expiry window, or one second longer
TickSteps == {EXPIRY, EXPIRY + 1}

MutatingCmds == {"mkdir", "touch", "rm", "cp", "mv", "edit"}
TwoPathCmds == {"cp", "mv"}

\* a key that is absent from the JSON object
NoLock == [session_id |-> "none", timestamp |-> 0]
EmptyTable == [r \in Paths |-> NoLock]
None == "None"

VARIABLES
    locks,    \* contents of data/resource_locks.json: path -> lock_info
    fs,       \* the paths that exist in the shared filesystem
    now,      \* time.time()
    pc,       \* per session: position inside run_command
    cmd,      \* per session: the command being run
    args,     \* per session: <<target>> or <<source, dest>> (absolute paths)
    k,        \* per session: index in args of the path being checked/acquired/released
    lk,       \* per session: the local dict `locks` between _load_locks and _save_locks
    ret,      \* per session: the value run_command will return after its releases
    result,   \* per session: what the last run_command returned to the REPL
    held,     \* per session: paths whose _acquire_lock returned True in this command
              \*   and whose _release_lock has not returned yet
    call,     \* per session: the last call made straight to the lock manager
    histFile, \* contents of data/sessions/<session>.json
    hpc,      \* per process: position inside add_command
    hsid,     \* per process: session_id argument of add_command
    hcmd,     \* per process: command argument of add_command
    hist,     \* per process: the local list `history`
    hapi,     \* per process: which add_command is running
    dirs,     \* the directories that exist
    data_dir, \* per directory: whether <directory>/data exists
    sessions_dir,           \* per directory: whether data/sessions exists
    session_files,          \* per directory: data/sessions/<id>.json, id -> list
    session_info_file,      \* per directory: data/session_info.json
    current_session_file,   \* per directory: data/current_session.txt
    process_session_file,   \* per directory: data/process_<pid>_session.txt
    ppc,      \* per terminal process: off, constructed, prompt, ended, crashed
    cwd,      \* per terminal process: os.getcwd()
    session_info,           \* per terminal process: self.session_info
    current_session,        \* per terminal process: current_session of main()
    conversation_mode,      \* per terminal process: self.conversation_mode
    first_session,          \* per terminal process: what its first get_current_session returned
    out,      \* per terminal process: what its last Session Store call returned
    user_input,             \* the line handed to process_input, as its words
    response, \* what the resolver does when interpret_command calls it
    reply,    \* what process_input returned for it
    all_commands_cache,     \* the history manager: self.all_commands_cache
    cache_timestamp,        \* the history manager: self.cache_timestamp
    dir_mtime,              \* os.path.getmtime(data/sessions), 0 while it is missing
    enumerated,             \* what the last get_all_commands returned
    chat_context            \* the processor: self.chat_context

lockVars == <<locks, fs, now, pc, cmd, args, k, lk, ret, result, held, call>>
histVars == <<histFile, hpc, hsid, hcmd, hist, hapi>>
storeVars == <<dirs, data_dir, sessions_dir, session_files, session_info_file,
               current_session_file, process_session_file>>
procVars == <<ppc, cwd, session_info, current_session, conversation_mode,
              first_session, out>>
sessVars == <<storeVars, procVars>>
cacheVars == <<all_commands_cache, cache_timestamp, dir_mtime, enumerated>>
\* the state of the helper objects of one terminal
uiVars == <<user_input, response, reply, cacheVars, chat_context>>
vars == <<locks, fs, now, pc, cmd, args, k, lk, ret, result, held, call,
          histFile, hpc, hsid, hcmd, hist, hapi,
          dirs, data_dir, sessions_dir, session_files, session_info_file,
          current_session_file, process_session_file,
          ppc, cwd, session_info, current_session, conversation_mode,
          first_session, out, user_input, response, reply,
          all_commands_cache, cache_timestamp, dir_mtime, enumerated,
          chat_context>>

\* ============================================================ lock manager

\* _load_locks (terminal.py:19-27): the whole table as stored
_load_locks(file) == file

\* a sweep that also drops the entries exactly 300 s old
PurgeExpired_AtWindow(tbl, current_time) ==
    [r \in Paths |->
        IF tbl[r] # NoLock /\ current_time - tbl[r].timestamp >= EXPIRY
        THEN NoLock ELSE tbl[r]]

\* the expiry sweep of _acquire_lock (terminal.py:44-46)
PurgeExpired(tbl, current_time) ==
    [r \in Paths |->
        IF tbl[r] # NoLock /\ current_time - tbl[r].timestamp > EXPIRY
        THEN NoLock ELSE tbl[r]]

\* the test of terminal.py:49, made on the swept table
LockedByOther(tbl, session_id, resource_path) ==
    tbl[resource_path] # NoLock /\ tbl[resource_path].session_id # session_id

\* _acquire_lock from its time.time() to its return False or its _save_locks:
\* the returned value and the dict handed to _save_locks
_acquire_lock(tbl, session_id, resource_path, current_time) ==
    LET swept == PurgeExpired(tbl, current_time) IN
    IF LockedByOther(swept, session_id, resource_path)
    THEN [ok |-> FALSE, table |-> swept]
    ELSE [ok |-> TRUE,
          table |-> [swept EXCEPT ![resource_path] =
                        [session_id |-> session_id, timestamp |-> current_time]]]

\* a holder test that forgets to compare the session
HeldBy_AnySession(tbl, session_id, resource_path) ==
    tbl[resource_path] # NoLock

\* the test of terminal.py:63
HeldBy(tbl, session_id, resource_path) ==
    tbl[resource_path] # NoLock /\ tbl[resource_path].session_id = session_id

\* a release that forgets the del
DelLock_Forgotten(tbl, resource_path) == tbl

\* del locks[resource_path] (terminal.py:64)
DelLock(tbl, resource_path) == [tbl EXCEPT ![resource_path] = NoLock]

\* _release_lock up to its _save_locks: whether it writes, and what
_release_lock(tbl, session_id, resource_path) ==
    IF HeldBy(tbl, session_id, resource_path)
    THEN [write |-> TRUE, table |-> DelLock(tbl, resource_path)]
    ELSE [write |-> FALSE, table |-> tbl]

\* a check that never reports a holder
_check_lock_Blind(tbl, session_id, resource_path) == None

\* _check_lock (terminal.py:67-72)
_check_lock(tbl, session_id, resource_path) ==
    IF tbl[resource_path] # NoLock /\ tbl[resource_path].session_id # session_id
    THEN tbl[resource_path].session_id
    ELSE None

\* ======================================================= command executor

\* the argument lists a command is called with (cp and mv with two different
\* paths)
ArgLists(c) ==
    IF c \in TwoPathCmds
    THEN {a \in Paths \X Paths : a[1] # a[2]}
    ELSE {<<target>> : target \in Paths}

\* os.path.exists(target) / os.path.exists(source) tested before any lock call
NeedsExisting(c) == c \in {"rm", "cp", "mv"}

\* the "... is being used by another session. Wait." texts
BusyText(c, i) ==
    IF c \in TwoPathCmds
    THEN (IF i = 1 THEN "busy_source" ELSE "busy_destination")
    ELSE "busy"
BusyTexts == {"busy", "busy_source", "busy_destination"}

\* whether the filesystem call of the command can go through
CanSucceed(c, a, files) ==
    CASE c = "rm" -> a[1] \in files
      [] c = "cp" -> a[1] \in files /\ a[1] # a[2]
      [] c = "mv" -> a[1] \in files
      [] OTHER -> TRUE

\* the filesystem after the call went through
Effect(c, a, files) ==
    CASE c = "rm" -> files \ {a[1]}
      [] c = "cp" -> files \cup {a[2]}
      [] c = "mv" -> (files \ {a[1]}) \cup {a[2]}
      [] OTHER -> files \cup {a[1]}

\* run_command returns r to the REPL
Return(s, r) ==
    /\ pc' = [pc EXCEPT ![s] = "idle"]
    /\ cmd' = [cmd EXCEPT ![s] = "none"]
    /\ args' = [args EXCEPT ![s] = <<>>]
    /\ k' = [k EXCEPT ![s] = 0]
    /\ lk' = [lk EXCEPT ![s] = EmptyTable]
    /\ ret' = [ret EXCEPT ![s] = "none"]
    /\ result' = [result EXCEPT ![s] = r]

\* how many _release_lock calls follow: one (the source) after a failed
\* destination acquire, else one per argument
ReleaseCount(s) == IF ret[s] = "busy_destination" THEN 1 ELSE Len(args[s])

\* a _release_lock call on args[k] has ended: the next call, or the return
AfterRelease(s) ==
    /\ held' = [held EXCEPT ![s] = @ \ {args[s][k[s]]}]
    /\ IF k[s] < ReleaseCount(s)
       THEN /\ pc' = [pc EXCEPT ![s] = "release"]
            /\ k' = [k EXCEPT ![s] = @ + 1]
            /\ lk' = [lk EXCEPT ![s] = EmptyTable]
            /\ UNCHANGED <<cmd, args, ret, result>>
       ELSE Return(s, ret[s])

\* run_command(c, a, s) is called: rm, cp and mv first test that their
\* first argument exists, the others go straight to _check_lock
StartCommand(s, c, a) ==
    /\ pc[s] = "idle"
    /\ c \in MutatingCmds /\ a \in ArgLists(c)
    /\ pc' = [pc EXCEPT ![s] = IF NeedsExisting(c) THEN "exists" ELSE "check"]
    /\ cmd' = [cmd EXCEPT ![s] = c]
    /\ args' = [args EXCEPT ![s] = a]
    /\ k' = [k EXCEPT ![s] = 1]
    /\ result' = [result EXCEPT ![s] = "running"]
    /\ held' = [held EXCEPT ![s] = {}]
    /\ UNCHANGED <<locks, fs, now, lk, ret, call>>

\* if not os.path.exists(...): return "Error: ... does not exist"
ExistsTest(s) ==
    /\ pc[s] = "exists"
    /\ IF args[s][1] \in fs
       THEN /\ pc' = [pc EXCEPT ![s] = "check"]
            /\ UNCHANGED <<cmd, args, k, lk, ret, result>>
       ELSE Return(s, "not_exist")
    /\ UNCHANGED <<locks, fs, now, held, call>>

\* locked_by = _check_lock(...); if locked_by: return "... Wait."
CheckLock(s) ==
    /\ pc[s] = "check"
    /\ IF _check_lock(_load_locks(locks), s, args[s][k[s]]) # None
       THEN Return(s, BusyText(cmd[s], k[s]))
       ELSE /\ IF k[s] < Len(args[s])
               THEN /\ k' = [k EXCEPT ![s] = @ + 1]
                    /\ pc' = pc
               ELSE /\ k' = [k EXCEPT ![s] = 1]
                    /\ pc' = [pc EXCEPT ![s] = "acquire"]
            /\ UNCHANGED <<cmd, args, lk, ret, result>>
    /\ UNCHANGED <<locks, fs, now, held, call>>

\* a failed destination acquire that returns without releasing the source
AcquireFailed_NoRelease(s) == Return(s, BusyText(cmd[s], k[s]))

\* what follows an _acquire_lock that returned False: the busy text at once
\* for the first path, _release_lock(source) first for the destination
AcquireFailed(s) ==
    IF k[s] = 1
    THEN Return(s, BusyText(cmd[s], 1))
    ELSE /\ pc' = [pc EXCEPT ![s] = "release"]
         /\ k' = [k EXCEPT ![s] = 1]
         /\ ret' = [ret EXCEPT ![s] = BusyText(cmd[s], 2)]
         /\ lk' = [lk EXCEPT ![s] = EmptyTable]
         /\ UNCHANGED <<cmd, args, result>>

\* _acquire_lock, lines 40-56: read the table and the clock, sweep, test
AcquireLoad(s) ==
    /\ pc[s] = "acquire"
    /\ LET r == _acquire_lock(_load_locks(locks), s, args[s][k[s]], now) IN
       IF r.ok
       THEN /\ lk' = [lk EXCEPT ![s] = r.table]
            /\ pc' = [pc EXCEPT ![s] = "acquire_save"]
            /\ UNCHANGED <<cmd, args, k, ret, result>>
       ELSE AcquireFailed(s)
    /\ UNCHANGED <<locks, fs, now, held, call>>

\* _acquire_lock, lines 57-58: _save_locks(locks); return True
AcquireSave(s) ==
    /\ pc[s] = "acquire_save"
    /\ locks' = lk[s]
    /\ held' = [held EXCEPT ![s] = @ \cup {args[s][k[s]]}]
    /\ lk' = [lk EXCEPT ![s] = EmptyTable]
    /\ IF k[s] < Len(args[s])
       THEN /\ k' = [k EXCEPT ![s] = @ + 1]
            /\ pc' = [pc EXCEPT ![s] = "acquire"]
       ELSE /\ k' = k
            /\ pc' = [pc EXCEPT ![s] = "op"]
    /\ UNCHANGED <<fs, now, cmd, args, ret, result, call>>

\* the filesystem call goes through (for edit: the user typed SAVE)
OpOk(s) ==
    /\ pc[s] = "op"
    /\ CanSucceed(cmd[s], args[s], fs)
    /\ fs' = Effect(cmd[s], args[s], fs)
    /\ pc' = [pc EXCEPT ![s] = "release"]
    /\ k' = [k EXCEPT ![s] = 1]
    /\ ret' = [ret EXCEPT ![s] = "ok"]
    /\ UNCHANGED <<locks, now, cmd, args, lk, result, held, call>>

\* the filesystem call raises OSError (for edit: any Exception, EOFError
\* included): the except clause releases and returns "Error: ..."
OpError(s) ==
    /\ pc[s] = "op"
    /\ pc' = [pc EXCEPT ![s] = "release"]
    /\ k' = [k EXCEPT ![s] = 1]
    /\ ret' = [ret EXCEPT ![s] = "error"]
    /\ UNCHANGED <<locks, fs, now, cmd, args, lk, result, held, call>>

\* Ctrl-C while edit waits in input("> "): KeyboardInterrupt is no Exception,
\* so it passes terminal.py:355 and :483 and is caught by main.py:205
EditInterrupt(s) ==
    /\ pc[s] = "op"
    /\ cmd[s] = "edit"
    /\ Return(s, "interrupted")
    /\ UNCHANGED <<locks, fs, now, held, call>>

\* _release_lock, lines 62-64: read the table, test the holder
ReleaseLoad(s) ==
    /\ pc[s] = "release"
    /\ LET r == _release_lock(_load_locks(locks), s, args[s][k[s]]) IN
       IF r.write
       THEN /\ lk' = [lk EXCEPT ![s] = r.table]
            /\ pc' = [pc EXCEPT ![s] = "release_save"]
            /\ UNCHANGED <<cmd, args, k, ret, result, held>>
       ELSE AfterRelease(s)
    /\ UNCHANGED <<locks, fs, now, call>>

\* _release_lock, line 65: _save_locks(locks)
ReleaseSave(s) ==
    /\ pc[s] = "release_save"
    /\ locks' = lk[s]
    /\ AfterRelease(s)
    /\ UNCHANGED <<fs, now, call>>

\* run_command("mkdir", []) and run_command("touch", []) (terminal.py:109-116,
\* 136-143): FileCreationDialog asks for a name and a place and creates the
\* path (file_creation_dialog.py:264-410); the text returned is the message of
\* the dialog
CreateWithPath(s, c, target) ==
    /\ pc[s] = "idle"
    /\ c \in {"mkdir", "touch"}
    /\ cmd' = [cmd EXCEPT ![s] = c]
    /\ args' = [args EXCEPT ![s] = <<>>]
    /\ fs' = fs \cup {target}
    /\ result' = [result EXCEPT ![s] = "ok"]
    /\ held' = [held EXCEPT ![s] = {}]
    /\ UNCHANGED <<locks, now, pc, k, lk, ret, call>>

\* time passes
Tick(d) ==
    /\ now + d <= MaxTime
    /\ now' = now + d
    /\ UNCHANGED <<locks, fs, pc, cmd, args, k, lk, ret, result, held, call>>

\* ------------------------------------------------------ read-only commands
ReadOnlyCmds == {"pwd", "ls", "cat", "find", "grep"}
\* pwd takes no path; the others are given one (for grep after the pattern)
ReadArgLists(c) == IF c = "pwd" THEN {<<>>} ELSE {<<target>> : target \in Paths}

\* a read that goes through the lock manager like a mutating command
run_read_only_Locking(c, a, files, tbl) ==
    IF c = "pwd" THEN {[result |-> "output", table |-> tbl]}
    ELSE IF tbl[a[1]] # NoLock THEN {[result |-> "busy", table |-> tbl]}
    ELSE {[result |-> "output",
           table |-> [tbl EXCEPT ![a[1]] = [session_id |-> "reader", timestamp |-> 0]]]}

\* the branches pwd, ls, cat, find and grep of run_command (terminal.py:87-97,
\* 296-315, 383-430): what they can return, and the lock table afterwards.
\* None of them calls the lock manager.  cat, find and grep return
\* "... does not exist" for a missing path, ls the text of the OSError; on
\* an existing path the output, or an error text (not a file, unreadable)
run_read_only(c, a, files, tbl) ==
    LET texts ==
          IF c = "pwd" THEN {"output"}
          ELSE IF a[1] \notin files
               THEN (IF c = "ls" THEN {"error"} ELSE {"not_exist"})
          ELSE {"output", "error"}
    IN {[result |-> t, table |-> tbl] : t \in texts}

\* run_command(c, a, s) is called with a read-only command
StartReadOnly(s, c, a) ==
    /\ pc[s] = "idle"
    /\ c \in ReadOnlyCmds /\ a \in ReadArgLists(c)
    /\ pc' = [pc EXCEPT ![s] = "read"]
    /\ cmd' = [cmd EXCEPT ![s] = c]
    /\ args' = [args EXCEPT ![s] = a]
    /\ result' = [result EXCEPT ![s] = "running"]
    /\ UNCHANGED <<locks, fs, now, k, lk, ret, held, call>>

\* the read is made and run_command returns
FinishReadOnly(s) ==
    /\ pc[s] = "read"
    /\ \E r \in run_read_only(cmd[s], args[s], fs, locks) :
         /\ locks' = r.table
         /\ Return(s, r.result)
    /\ UNCHANGED <<fs, now, held, call>>

\* ============================== the lock manager called by arbitrary callers
NoCall == [op |-> "none", path |-> "none", ret |-> "none"]

\* _acquire_lock(s, p), lines 40-56; a False is returned at once
ApiAcquire(s, p) ==
    /\ pc[s] = "idle"
    /\ LET r == _acquire_lock(_load_locks(locks), s, p, now) IN
       IF r.ok
       THEN /\ pc' = [pc EXCEPT ![s] = "api_acquire_save"]
            /\ lk' = [lk EXCEPT ![s] = r.table]
            /\ call' = [call EXCEPT ![s] = [op |-> "acquire", path |-> p, ret |-> "pending"]]
       ELSE /\ call' = [call EXCEPT ![s] = [op |-> "acquire", path |-> p, ret |-> "False"]]
            /\ UNCHANGED <<pc, lk>>
    /\ UNCHANGED <<locks, fs, now, cmd, args, k, ret, result, held>>

\* _acquire_lock, lines 57-58
ApiAcquireSave(s) ==
    /\ pc[s] = "api_acquire_save"
    /\ locks' = lk[s]
    /\ pc' = [pc EXCEPT ![s] = "idle"]
    /\ lk' = [lk EXCEPT ![s] = EmptyTable]
    /\ call' = [call EXCEPT ![s].ret = "True"]
    /\ UNCHANGED <<fs, now, cmd, args, k, ret, result, held>>

\* what data/resource_locks.json holds after a _save_locks whose write failed
\* (terminal.py:29-36): when makedirs or open is refused the file is as it
\* was; when open(_lock_file, 'w') succeeded the file was truncated before
\* json.dump or the closing flush failed, and _load_locks reads such a file
\* as {} (JSONDecodeError, lines 19-27)
FailedSaveOutcomes(file) == {file, EmptyTable}

\* _acquire_lock, lines 57-58, with the IOError of _save_locks swallowed
ApiAcquireSaveFails(s) ==
    /\ pc[s] = "api_acquire_save"
    /\ locks' \in FailedSaveOutcomes(locks)
    /\ pc' = [pc EXCEPT ![s] = "idle"]
    /\ lk' = [lk EXCEPT ![s] = EmptyTable]
    /\ call' = [call EXCEPT ![s].ret = "True"]
    /\ UNCHANGED <<fs, now, cmd, args, k, ret, result, held>>

\* _release_lock(s, p), lines 62-64
ApiRelease(s, p) ==
    /\ pc[s] = "idle"
    /\ LET r == _release_lock(_load_locks(locks), s, p) IN
       IF r.write
       THEN /\ pc' = [pc EXCEPT ![s] = "api_release_save"]
            /\ lk' = [lk EXCEPT ![s] = r.table]
            /\ call' = [call EXCEPT ![s] = [op |-> "release", path |-> p, ret |-> "pending"]]
       ELSE /\ call' = [call EXCEPT ![s] = [op |-> "release", path |-> p, ret |-> "unheld"]]
            /\ UNCHANGED <<pc, lk>>
    /\ UNCHANGED <<locks, fs, now, cmd, args, k, ret, result, held>>

\* _release_lock, line 65
ApiReleaseSave(s) ==
    /\ pc[s] = "api_release_save"
    /\ locks' = lk[s]
    /\ pc' = [pc EXCEPT ![s] = "idle"]
    /\ lk' = [lk EXCEPT ![s] = EmptyTable]
    /\ call' = [call EXCEPT ![s].ret = "released"]
    /\ UNCHANGED <<fs, now, cmd, args, k, ret, result, held>>

\* _check_lock(s, p)
ApiCheck(s, p) ==
    /\ pc[s] = "idle"
    /\ call' = [call EXCEPT ![s] =
                  [op |-> "check", path |-> p,
                   ret |-> _check_lock(_load_locks(locks), s, p)]]
    /\ UNCHANGED <<locks, fs, now, pc, cmd, args, k, lk, ret, result, held>>

\* ============================================================ history store
HProcs == {"P1", "P2"}
Commands == {"ls", "pwd"}
\* the stored list of a session is not grown beyond MaxHist entries
MaxHist == 3

\* load_history / load_session_history: the stored list
load_history(file, session_id) == file[session_id]

\* enhanced_history.py:102-103
AppendUnlessLast(history, command) ==
    IF history = <<>> \/ history[Len(history)] # command
    THEN Append(history, command)
    ELSE history

\* history.py:56
AppendAlways(history, command) == Append(history, command)

\* EnhancedHistoryManager.add_command, lines 99-103
EnhancedLoad(p, session_id, command) ==
    /\ hpc[p] = "idle"
    /\ Len(histFile[session_id]) < MaxHist
    /\ hist' = [hist EXCEPT ![p] =
                  AppendUnlessLast(load_history(histFile, session_id), command)]
    /\ hpc' = [hpc EXCEPT ![p] = "save"]
    /\ hsid' = [hsid EXCEPT ![p] = session_id]
    /\ hcmd' = [hcmd EXCEPT ![p] = command]
    /\ hapi' = [hapi EXCEPT ![p] = "enhanced"]
    /\ UNCHANGED histFile

\* EnhancedHistoryManager.add_command, line 106
EnhancedSave(p) ==
    /\ hpc[p] = "save" /\ hapi[p] = "enhanced"
    /\ histFile' = [histFile EXCEPT ![hsid[p]] = hist[p]]
    /\ hpc' = [hpc EXCEPT ![p] = "idle"]
    /\ hist' = [hist EXCEPT ![p] = <<>>]
    /\ UNCHANGED <<hsid, hcmd, hapi>>

\* history.add_command, lines 55-56
PlainLoad(p, session_id, command) ==
    /\ hpc[p] = "idle"
    /\ Len(histFile[session_id]) < MaxHist
    /\ hist' = [hist EXCEPT ![p] =
                  AppendAlways(load_history(histFile, session_id), command)]
    /\ hpc' = [hpc EXCEPT ![p] = "save"]
    /\ hsid' = [hsid EXCEPT ![p] = session_id]
    /\ hcmd' = [hcmd EXCEPT ![p] = command]
    /\ hapi' = [hapi EXCEPT ![p] = "plain"]
    /\ UNCHANGED histFile

\* history.add_command, line 57
PlainSave(p) ==
    /\ hpc[p] = "save" /\ hapi[p] = "plain"
    /\ histFile' = [histFile EXCEPT ![hsid[p]] = hist[p]]
    /\ hpc' = [hpc EXCEPT ![p] = "idle"]
    /\ hist' = [hist EXCEPT ![p] = <<>>]
    /\ UNCHANGED <<hsid, hcmd, hapi>>

\* ------------------------------------------------ the all-commands cache
\* all_commands_cache is None, or the list of the commands found
NoCache == [none |-> TRUE, commands |-> {}]
Cached(commands) == [none |-> FALSE, commands |-> commands]

\* a history file exists once an add_command saved it: the saved list has at
\* least the command in it
StoredSessions(file) == {sid \in Sessions : file[sid] # <<>>}

\* the set built by the loop of get_all_commands (enhanced_history.py:138-145)
AllCommands(file) ==
    UNION {{file[sid][i] : i \in 1..Len(file[sid])} : sid \in StoredSessions(file)}

\* get_all_commands (enhanced_history.py:135-150): the cache and the
\* timestamp afterwards; the cache is what is returned
get_all_commands(cache, timestamp, current_time, file) ==
    IF cache.none \/ current_time > timestamp
    THEN [cache |-> Cached(AllCommands(file)), timestamp |-> current_time]
    ELSE [cache |-> cache, timestamp |-> timestamp]

\* the modification time of data/sessions after a save: it advances when the
\* save made a new entry in the directory, not when it rewrote a file
MtimeAfterSave(file, session_id) ==
    IF session_id \in StoredSessions(file) THEN dir_mtime ELSE dir_mtime + 1

\* add_command that leaves the cache as it is
AddCommand_KeepCache(session_id, command) ==
    /\ Len(histFile[session_id]) < MaxHist
    /\ histFile' = [histFile EXCEPT ![session_id] =
                       AppendUnlessLast(load_history(histFile, session_id), command)]
    /\ dir_mtime' = MtimeAfterSave(histFile, session_id)
    /\ hsid' = [hsid EXCEPT !["P1"] = session_id]
    /\ hcmd' = [hcmd EXCEPT !["P1"] = command]
    /\ hpc' = [hpc EXCEPT !["P1"] = "added"]
    /\ UNCHANGED <<all_commands_cache, hist, hapi, cache_timestamp, enumerated>>

\* EnhancedHistoryManager.add_command of the manager of process P1, as one
\* step (enhanced_history.py:98-113); hpc is "added" from its return to the
\* next get_all_commands of this manager
AddCommand(session_id, command) ==
    /\ Len(histFile[session_id]) < MaxHist
    /\ histFile' = [histFile EXCEPT ![session_id] =
                       AppendUnlessLast(load_history(histFile, session_id), command)]
    /\ dir_mtime' = MtimeAfterSave(histFile, session_id)
    /\ all_commands_cache' = NoCache
    /\ hsid' = [hsid EXCEPT !["P1"] = session_id]
    /\ hcmd' = [hcmd EXCEPT !["P1"] = command]
    /\ hpc' = [hpc EXCEPT !["P1"] = "added"]
    /\ UNCHANGED <<hist, hapi, cache_timestamp, enumerated>>

\* add_command of the manager of another process: the files and the
\* directory change, the cache of P1 does not
ForeignAddCommand(session_id, command) ==
    /\ Len(histFile[session_id]) < MaxHist
    /\ histFile' = [histFile EXCEPT ![session_id] =
                       AppendUnlessLast(load_history(histFile, session_id), command)]
    /\ dir_mtime' = MtimeAfterSave(histFile, session_id)
    /\ hsid' = [hsid EXCEPT !["P2"] = session_id]
    /\ hcmd' = [hcmd EXCEPT !["P2"] = command]
    /\ UNCHANGED <<hpc, hist, hapi, all_commands_cache, cache_timestamp, enumerated>>

\* get_all_commands called on the manager of P1
GetAllCommands ==
    /\ LET r == get_all_commands(all_commands_cache, cache_timestamp,
                                 dir_mtime, histFile) IN
       /\ all_commands_cache' = r.cache
       /\ cache_timestamp' = r.timestamp
       /\ enumerated' = r.cache.commands
    /\ hpc' = [hpc EXCEPT !["P1"] = "idle"]
    /\ UNCHANGED <<histFile, hsid, hcmd, hist, hapi, dir_mtime>>

CacheIdle ==
    /\ all_commands_cache = NoCache
    /\ cache_timestamp = 0
    /\ dir_mtime = 0
    /\ enumerated = {}

\* ============================================================ session store
\* Each terminal is an OS process running main.py; it is launched in the
\* directory "home" (where data/ starts to live).  Every file name used by
\* session_manager.py, history.py, enhanced_history.py and terminal.py is
\* relative ("data/..."), so a process reads and writes the data directory
\* of the directory it is in at that moment; the stores are therefore kept
\* per directory.
Pids == {101, 102}
Dirs == {"home", "away"}
\* a file that does not exist
Missing == "missing"
\* a dict is the function of its keys; EmptyDict is the dict without keys
EmptyDict == [x \in {} |-> 0]
Keys(dict) == DOMAIN dict
\* a JSON file that does not exist, and one that holds a dict
NoFile == [exists |-> FALSE, data |-> EmptyDict]
File(data) == [exists |-> TRUE, data |-> data]

\* the history files of the model hold at most this many entries in all, and
\* one data/sessions at most this many history files
MaxLines == 2
MaxSessions == 3

\* cleanup_old_sessions(days=30): the age threshold in seconds
CleanupDays == 30
CleanupAge == CleanupDays * (24 * 60 * 60)

\* f"session_{len(sessions) + 1}" (session_manager.py:93)
SeqId(n) == "session_" \o ToString(n)
\* f"session_{process_id}_{timestamp}" (session_manager.py:67)
ProcId(process_id, timestamp) ==
    "session_" \o ToString(process_id) \o "_" \o ToString(timestamp)

\* d[key] = v on a dict
Put(dict, key, v) ==
    [x \in DOMAIN dict \cup {key} |-> IF x = key THEN v ELSE dict[x]]
\* del d[key] for every key of keys
Del(dict, keys) == [x \in DOMAIN dict \ keys |-> dict[x]]

\* the value of session_info[session_id] written by the two creators
NewInfo(directory, t) == [working_directory |-> directory, last_accessed |-> t]

\* -------------------------------------------------- the unified processor
\* An input line is the sequence of its words; the words are in lower case
\* except where a specification enters a toggle word in capitals.  Text is
\* the stripped string the code works on.
RECURSIVE Text(_)
Text(line) ==
    IF Len(line) = 0 THEN ""
    ELSE IF Len(line) = 1 THEN line[1]
    ELSE line[1] \o " " \o Text(Tail(line))

\* `keyword in text` of Python: the keyword is a substring of the text
Contains(text, keyword) ==
    \E i \in 1..(Len(text) - Len(keyword) + 1) :
        SubSeq(text, i, i + Len(keyword) - 1) = keyword

\* re.match of `^cmd` : the text starts with cmd
StartsWith(text, prefix) ==
    Len(text) >= Len(prefix) /\ SubSeq(text, 1, Len(prefix)) = prefix

\* the characters \w matches in the lines of this model
WordChars ==
    {"a", "b", "c", "d", "e", "f", "g", "h", "i", "j", "k", "l", "m", "n", "o",
     "p", "q", "r", "s", "t", "u", "v", "w", "x", "y", "z", "_",
     "0", "1", "2", "3", "4", "5", "6", "7", "8", "9"}
\* re.match of `(\w+)$` on one word
IsName(word) ==
    Len(word) > 0 /\ \A i \in 1..Len(word) : SubSeq(word, i, i) \in WordChars

\* any(keyword in text ...) over one-word keywords and over keywords of
\* several words
HasWord(line, words) == \E word \in words : Contains(Text(line), word)
HasPhrase(line, phrase) == Contains(Text(line), Text(phrase))
HasAny(line, words, phrases) ==
    HasWord(line, words) \/ \E ph \in phrases : HasPhrase(line, ph)

\* str.lower() on ASCII text
UpperCase == "ABCDEFGHIJKLMNOPQRSTUVWXYZ"
LowerCase == "abcdefghijklmnopqrstuvwxyz"
LowerChar(c) ==
    IF \E i \in 1..Len(UpperCase) : SubSeq(UpperCase, i, i) = c
    THEN LET i == CHOOSE i \in 1..Len(UpperCase) : SubSeq(UpperCase, i, i) = c
         IN SubSeq(LowerCase, i, i)
    ELSE c
RECURSIVE Lower(_)
Lower(text) ==
    IF text = "" THEN ""
    ELSE LowerChar(SubSeq(text, 1, 1)) \o Lower(SubSeq(text, 2, Len(text)))

ToggleWords == {"chat", "conversation", "talk", "converse"}
\* a toggle test that compares the input as it was typed
_is_conversation_toggle_AsTyped(line) == Len(line) = 1 /\ line[1] \in ToggleWords
_is_conversation_toggle(line) == Len(line) = 1 /\ Lower(line[1]) \in ToggleWords

SingleWordCommands ==
    {"ls", "pwd", "ps", "cpu", "mem", "df", "date", "whoami", "uname", "clear",
     "exit", "history", "stats", "newterm", "sessions"}
\* direct_command_patterns of the form ^cmd\s+
ArgPatterns ==
    {"cd", "mkdir", "touch", "rm", "cp", "mv", "cat", "edit", "find", "grep",
     "echo", "switch"}
\* direct_command_patterns of the form ^cmd\s*
BarePatterns ==
    {"ls", "pwd", "exit", "help", "clear", "ps", "cpu", "mem", "df", "date",
     "whoami", "uname", "history", "stats", "newterm", "sessions"}

\* a test no line passes
_is_simple_folder_creation_Never(line) == FALSE
_is_simple_folder_creation(line) ==
    \/ /\ Len(line) = 3
       /\ line[1] \in {"create", "make", "new"}
       /\ line[2] \in {"folder", "directory"}
       /\ IsName(line[3])
    \/ /\ Len(line) = 4
       /\ line[1] \in {"create", "make"}
       /\ line[2] \in {"folder", "directory"}
       /\ line[3] = "called"
       /\ IsName(line[4])

_is_simple_file_creation(line) ==
    \/ /\ Len(line) = 3
       /\ line[1] \in {"create", "make", "new"}
       /\ line[2] = "file"
       /\ IsName(line[3])
    \/ /\ Len(line) = 4
       /\ line[1] \in {"create", "make"}
       /\ line[2] = "file"
       /\ line[3] = "called"
       /\ IsName(line[4])

_is_system_query(line) ==
    HasAny(line,
           {"cpu", "memory", "disk", "process", "system", "info", "usage",
            "performance", "status", "running", "active", "date", "user",
            "files", "directory", "folder", "list"},
           {<<"what", "time">>, <<"current", "time">>, <<"who", "am", "i">>,
            <<"show", "me">>, <<"what", "files">>, <<"what", "is", "my">>,
            <<"how", "much">>, <<"how", "many">>})

_is_file_operation(line) ==
    HasWord(line,
            {"create", "make", "new", "file", "folder", "directory", "delete",
             "remove", "copy", "move", "rename", "edit", "open", "read",
             "write", "save", "find", "search"})

_is_natural_language(line) ==
    /\ Len(line) > 1
    /\ HasWord(line,
               {"create", "make", "show", "list", "find", "search", "move",
                "copy", "delete", "remove", "open", "read", "write", "save",
                "edit", "change", "update", "modify", "what", "how", "where",
                "when", "why", "which", "who"})

_is_chat_input(line) ==
    HasAny(line,
           {"hello", "hi", "hey", "thanks", "please", "why", "explain"},
           {<<"thank", "you">>, <<"help", "me">>, <<"can", "you">>,
            <<"could", "you">>, <<"would", "you">>, <<"what", "is">>,
            <<"how", "do">>, <<"tell", "me">>, <<"show", "me">>,
            <<"i", "need">>, <<"i", "want">>, <<"i", "am">>,
            <<"my", "name", "is">>, <<"i", "am", "working", "on">>,
            <<"i", "have", "a", "problem">>, <<"i", "need", "help">>})

\* re.match of one of direct_command_patterns (unified_processor.py:148-150):
\* `^cmd\s+` needs cmd as the first of several words, `^cmd\s*` only needs
\* the text to start with cmd
MatchesDirectPattern(line) ==
    \/ Len(line) > 1 /\ line[1] \in ArgPatterns
    \/ \E c \in BarePatterns : StartsWith(Text(line), c)

\* the same stages with the chat test moved before the natural-language test
_classify_input_ChatFirst(line) ==
    IF _is_conversation_toggle(line) THEN "conversation_toggle"
    ELSE IF Len(line) = 1 /\ line[1] \in SingleWordCommands THEN "direct_command"
    ELSE IF MatchesDirectPattern(line) THEN "direct_command"
    ELSE IF _is_simple_folder_creation(line) THEN "simple_folder_creation"
    ELSE IF _is_simple_file_creation(line) THEN "simple_file_creation"
    ELSE IF _is_system_query(line) THEN "system_query"
    ELSE IF _is_file_operation(line) THEN "file_operation"
    ELSE IF _is_chat_input(line) THEN "chat"
    ELSE IF _is_natural_language(line) THEN "natural_language"
    ELSE "unknown"
\* _classify_input (unified_processor.py:135-175) of a line that is not empty
_classify_input(line) ==
    IF _is_conversation_toggle(line) THEN "conversation_toggle"
    ELSE IF Len(line) = 1 /\ line[1] \in SingleWordCommands THEN "direct_command"
    ELSE IF MatchesDirectPattern(line) THEN "direct_command"
    ELSE IF _is_simple_folder_creation(line) THEN "simple_folder_creation"
    ELSE IF _is_simple_file_creation(line) THEN "simple_file_creation"
    ELSE IF _is_system_query(line) THEN "system_query"
    ELSE IF _is_file_operation(line) THEN "file_operation"
    ELSE IF _is_natural_language(line) THEN "natural_language"
    ELSE IF _is_chat_input(line) THEN "chat"
    ELSE "unknown"

\* the word after the last `word` of the line that has one, else "none"
WordAfter(line, word) ==
    LET at == {i \in 1..(Len(line) - 1) : line[i] = word} IN
    IF at = {} THEN "none"
    ELSE line[(CHOOSE i \in at : \A j \in at : j <= i) + 1]

\* re.search of `first.*second` in the text of the line
InOrder(line, first, second) ==
    LET text == Text(line) IN
    \E i \in 1..(Len(text) - Len(first) + 1) :
      \E j \in (i + Len(first))..(Len(text) - Len(second) + 1) :
        /\ SubSeq(text, i, i + Len(first) - 1) = first
        /\ SubSeq(text, j, j + Len(second) - 1) = second

\* _fallback_interpretation (ai_interpreter.py:177-249), which
\* interpret_command falls back to when the resolver cannot be reached: the
\* patterns that the words of the lines of this model can match, in the
\* order of the dict; a line no pattern matches is returned as it is
_fallback_interpretation(line) ==
    IF InOrder(line, "show", "directory") THEN <<"ls">>
    ELSE IF InOrder(line, "current", "directory") THEN <<"pwd">>
    ELSE IF HasPhrase(line, <<"go", "to">>) /\ WordAfter(line, "to") # "none"
         THEN <<"cd", WordAfter(line, "to")>>
    ELSE IF \E i \in 1..Len(line) : \E j \in (i + 1)..(Len(line) - 1) :
                line[i] = "change" /\ line[j] = "to"
         THEN <<"cd", WordAfter(line, "to")>>
    ELSE IF InOrder(line, "cpu", "usage") THEN <<"cpu">>
    ELSE line

\* _is_file_creation_request (ai_interpreter.py:251-273)
_is_file_creation_request(line) ==
    /\ HasWord(line, {"create", "make", "new", "build", "add"})
    /\ HasAny(line, {"file", "folder", "directory", "document"},
              {<<"text", "file">>, <<"python", "file">>})

\* interpret_command (ai_interpreter.py:98-150) with the resolver out of
\* reach: the command, as its words
interpret_command(line) ==
    IF _is_file_creation_request(line)
    THEN (IF HasWord(line, {"folder", "directory"})
          THEN <<"mkdir">> ELSE <<"touch">>)
    ELSE _fallback_interpretation(line)

\* str.strip() and str.split() on texts whose only whitespace is the space
RECURSIVE Strip(_)
Strip(text) ==
    IF Len(text) = 0 THEN text
    ELSE IF SubSeq(text, 1, 1) = " " THEN Strip(SubSeq(text, 2, Len(text)))
    ELSE IF SubSeq(text, Len(text), Len(text)) = " "
         THEN Strip(SubSeq(text, 1, Len(text) - 1))
    ELSE text
RECURSIVE Split(_)
Split(text) ==
    LET t == Strip(text)
        spaces == {i \in 1..Len(t) : SubSeq(t, i, i) = " "}
    IN IF Len(t) = 0 THEN <<>>
       ELSE IF spaces = {} THEN <<t>>
       ELSE LET first == CHOOSE i \in spaces : \A j \in spaces : i <= j IN
            <<SubSeq(t, 1, first - 1)>> \o Split(SubSeq(t, first + 1, Len(t)))

\* re.findall of `q([^q]+)q` for a quote character q, from position `from` on
RECURSIVE Delimited(_, _, _)
Delimited(text, q, from) ==
    LET at == {i \in from..Len(text) : SubSeq(text, i, i) = q} IN
    IF at = {} THEN <<>>
    ELSE LET open == CHOOSE i \in at : \A j \in at : i <= j
             rest == at \ {open}
         IN IF rest = {} THEN <<>>
            ELSE LET close == CHOOSE i \in rest : \A j \in rest : i <= j IN
                 IF close = open + 1 THEN Delimited(text, q, close)
                 ELSE <<SubSeq(text, open + 1, close - 1)>>
                          \o Delimited(text, q, close + 1)

\* re.findall of `(\w+\s+[^\n]+)` in a text of one line: from the first run
\* of word characters that a space and something more follow, to the end
CommandLike(text) ==
    LET starts == {i \in 1..Len(text) :
                     \E j \in i..(Len(text) - 2) :
                        /\ \A m \in i..j : SubSeq(text, m, m) \in WordChars
                        /\ SubSeq(text, j + 1, j + 1) = " "}
    IN IF starts = {} THEN <<>>
       ELSE <<SubSeq(text, CHOOSE i \in starts : \A j \in starts : i <= j,
                     Len(text))>>

\* what interpret_command returns: a dict with the key "command" or with the
\* key "commands"; Raised when an exception leaves it instead
Interpreted(key, command, commands) ==
    [key |-> key, command |-> command, commands |-> commands]
Raised == Interpreted("raised", "", <<>>)

RECURSIVE StripAll(_)
StripAll(matches) ==
    IF Len(matches) = 0 THEN <<>>
    ELSE <<Strip(Head(matches))>> \o StripAll(Tail(matches))

\* _extract_command_from_text (ai_interpreter.py:151-177) on a text without
\* backquotes, which the first of its three patterns never matches
_extract_command_from_text(text) ==
    LET found == <<Delimited(text, "\"", 1), CommandLike(text)>>
        hits == {n \in 1..2 : Len(found[n]) > 0}
    IN IF hits = {} THEN Interpreted("command", Strip(text), <<>>)
       ELSE LET matches == found[CHOOSE n \in hits : \A m \in hits : n <= m] IN
            IF Len(matches) = 1
            THEN Interpreted("command", Strip(matches[1]), <<>>)
            ELSE Interpreted("commands", "", StripAll(matches))

\* What the resolver (ollama.chat / openai.ChatCompletion.create) does with a
\* request: it raises, it cannot be reached (which raises too), it replies
\* with a text that is not JSON, or with the JSON object {"command": text}
ResponseKinds == {"raises", "unavailable", "text", "json"}
ResponseTexts ==
    {"ls", "run \"ls\"", "use \"cd away\" then \"ls\"", "type \" pwd \" here",
     "try ls home", "", "say \"\"", "-> cd away"}
Responses ==
    {[kind |-> kind, text |-> ""] : kind \in {"raises", "unavailable"}}
        \cup {[kind |-> kind, text |-> text] :
                 kind \in {"text", "json"}, text \in ResponseTexts}

\* the try block of interpret_command (ai_interpreter.py:108-143)
Attempt(line, resp) ==
    IF _is_file_creation_request(line)
    THEN Interpreted("command",
                     IF HasWord(line, {"folder", "directory"})
                     THEN "mkdir" ELSE "touch", <<>>)
    ELSE IF resp.kind \in {"raises", "unavailable"} THEN Raised
    ELSE IF resp.kind = "json"
         THEN Interpreted("command", resp.text, <<>>)
    ELSE _extract_command_from_text(Strip(resp.text))

\* an interpret_command without its except clause
interpret_command_given_NoExcept(line, resp) == Attempt(line, resp)

\* interpret_command (ai_interpreter.py:98-149) given what the resolver does
interpret_command_given(line, resp) ==
    IF Attempt(line, resp) = Raised
    THEN Interpreted("command", Text(_fallback_interpretation(line)), <<>>)
    ELSE Attempt(line, resp)

\* what a handler of the processor does with a line: the command it hands to
\* run_command (<<>> when it runs none) and whether it looks at a `cd` to
\* update the Session Store afterwards
Handled(type, command, updates) ==
    [type |-> type, command |-> command, updates |-> updates]

_handle_direct_command(line) == Handled("direct_command", line, TRUE)
_handle_natural_language(line) ==
    Handled("natural_language", interpret_command(line), TRUE)
_handle_system_query(line) ==
    Handled("system_query", interpret_command(line), FALSE)
_handle_file_operation(line) ==
    Handled("file_operation", interpret_command(line), FALSE)

HelpWords == {"help", "how", "what", "explain"}
SystemWords == {"cpu", "memory", "disk", "process", "system"}
FileWords == {"create", "make", "file", "folder", "directory"}

\* _handle_chat_input (unified_processor.py:434-469)
_handle_chat_input(line) ==
    IF HasAny(line, HelpWords, {<<"tell", "me">>})
    THEN Handled("help", <<>>, FALSE)
    ELSE IF HasWord(line, SystemWords) THEN _handle_system_query(line)
    ELSE IF HasWord(line, FileWords) THEN _handle_file_operation(line)
    ELSE Handled("chat", <<>>, FALSE)

\* _handle_conversation_input (unified_processor.py:471-494)
_handle_conversation_input(line) ==
    IF HasWord(line, {"run", "execute", "do", "perform"})
    THEN _handle_natural_language(line)
    ELSE IF HasAny(line, HelpWords, {<<"tell", "me">>})
    THEN Handled("help", <<>>, FALSE)
    ELSE IF HasWord(line, SystemWords) THEN _handle_system_query(line)
    ELSE IF HasWord(line, FileWords) THEN _handle_file_operation(line)
    ELSE _handle_chat_input(line)

\* _handle_simple_folder_creation (unified_processor.py:275-321) and
\* _handle_simple_file_creation (323-364): the name is the group of the
\* pattern that matched, the last word
_handle_simple_folder_creation(line) ==
    Handled("simple_folder_creation", <<"mkdir", line[Len(line)]>>, FALSE)
_handle_simple_file_creation(line) ==
    Handled("simple_file_creation", <<"touch", line[Len(line)]>>, FALSE)

\* process_input without the test of the conversation mode
process_input_NoMode(line, conv) ==
    IF Len(line) = 0 THEN Handled("empty", <<>>, FALSE)
    ELSE IF \/ _is_conversation_toggle(line)
            \/ _classify_input(line) = "conversation_toggle"
    THEN Handled("conversation_toggle", <<>>, FALSE)
    ELSE LET input_type == _classify_input(line) IN
         CASE input_type = "direct_command" -> _handle_direct_command(line)
           [] input_type = "simple_folder_creation" ->
                _handle_simple_folder_creation(line)
           [] input_type = "simple_file_creation" ->
                _handle_simple_file_creation(line)
           [] input_type = "file_operation" -> _handle_file_operation(line)
           [] input_type = "system_query" -> _handle_system_query(line)
           [] input_type = "chat" -> _handle_chat_input(line)
           [] input_type = "natural_language" -> _handle_natural_language(line)
           [] OTHER -> Handled("unknown", <<>>, FALSE)

\* process_input (unified_processor.py:67-109)
process_input(line, conv) ==
    IF Len(line) = 0 THEN Handled("empty", <<>>, FALSE)
    ELSE IF \/ _is_conversation_toggle(line)
            \/ _classify_input(line) = "conversation_toggle"
    THEN Handled("conversation_toggle", <<>>, FALSE)
    ELSE IF conv THEN _handle_conversation_input(line)
    ELSE LET input_type == _classify_input(line) IN
         CASE input_type = "direct_command" -> _handle_direct_command(line)
           [] input_type = "simple_folder_creation" ->
                _handle_simple_folder_creation(line)
           [] input_type = "simple_file_creation" ->
                _handle_simple_file_creation(line)
           [] input_type = "file_operation" -> _handle_file_operation(line)
           [] input_type = "system_query" -> _handle_system_query(line)
           [] input_type = "chat" -> _handle_chat_input(line)
           [] input_type = "natural_language" -> _handle_natural_language(line)
           [] OTHER -> Handled("unknown", <<>>, FALSE)

\* ------------------------------------------------------ the Session Store
\* os.listdir(self.sessions_dir) filtered on ".json" (session_manager.py:114-122)
list_sessions(d) == Keys(session_files[d])

\* a membership test that finds every id
KnownSession_Always(sessions, session_id) == TRUE

\* `session_id in sessions` (session_manager.py:150)
KnownSession(sessions, session_id) == session_id \in sessions

\* _save_session_info (session_manager.py:37-43): the file after the call.
\* open(..., 'w') fails with an IOError, which is swallowed, when data/ is
\* not there
_save_session_info(d, info) ==
    IF data_dir[d] THEN File(info) ELSE session_info_file[d]

\* _load_session_info (session_manager.py:26-35)
_load_session_info(d) ==
    IF session_info_file[d].exists THEN session_info_file[d].data ELSE EmptyDict

\* load_history of history.py and load_session_history of
\* enhanced_history.py: [] when the file is missing
LoadHistory(d, session_id) ==
    IF session_id \in Keys(session_files[d])
    THEN session_files[d][session_id] ELSE <<>>

\* get_working_directory (session_manager.py:176-183) with an explicit id
get_working_directory(info, session_id, getcwd) ==
    IF session_id \in Keys(info)
    THEN info[session_id].working_directory
    ELSE getcwd

\* the None that get_session_details returns for an id it does not know
NoDetails == [working_directory |-> "none", working_directory_status |-> "none"]

\* get_session_details (session_manager.py:124-145) with an explicit id: None,
\* or the working directory and the status of the copy that is returned
get_session_details(info, session_id, getcwd) ==
    IF session_id \notin Keys(info) THEN NoDetails
    ELSE IF info[session_id].working_directory \in dirs
    THEN [working_directory |-> info[session_id].working_directory,
          working_directory_status |-> "valid"]
    ELSE [working_directory |-> getcwd, working_directory_status |-> "invalid"]


\* the number of history entries in all files but the one of session_id in d
RECURSIVE SumLen(_, _)
SumLen(files, ids) ==
    IF ids = {} THEN 0
    ELSE LET x == CHOOSE i \in ids : TRUE IN Len(files[x]) + SumLen(files, ids \ {x})
RECURSIVE EntriesIn(_, _)
EntriesIn(ds, skip) ==
    IF ds = {} THEN 0
    ELSE LET d == CHOOSE x \in ds : TRUE IN
         SumLen(session_files[d], Keys(session_files[d]) \ skip[d])
           + EntriesIn(ds \ {d}, skip)
OtherEntries(d, session_id) ==
    EntriesIn(Dirs, [x \in Dirs |-> IF x = d THEN {session_id} ELSE {}])

AtPrompt(p) == ppc[p] = "prompt"
Live(p) == ppc[p] \in {"off", "constructed", "prompt"}

\* SessionManager() (session_manager.py:11-18), called by main.py:31.
\* Without data/current_session.txt, _ensure_current_session_exists calls
\* create_new_session before _load_session_info has set self.session_info:
\* the history file is written (line 97) and line 101 raises AttributeError,
\* which nothing in main() catches.
Launch(p) ==
    /\ ppc[p] = "off"
    /\ LET d == cwd[p]
           sessions == list_sessions(d)
           session_id == SeqId(Cardinality(sessions) + 1)
       IN
       /\ data_dir' = [data_dir EXCEPT ![d] = TRUE]
       /\ sessions_dir' = [sessions_dir EXCEPT ![d] = TRUE]
       /\ IF current_session_file[d] = Missing
          THEN /\ session_files' = [session_files EXCEPT ![d] = Put(@, session_id, <<>>)]
               /\ ppc' = [ppc EXCEPT ![p] = "crashed"]
               /\ out' = [out EXCEPT ![p] = "AttributeError"]
               /\ UNCHANGED session_info
          ELSE /\ session_info' = [session_info EXCEPT ![p] = _load_session_info(d)]
               /\ ppc' = [ppc EXCEPT ![p] = "constructed"]
               /\ out' = [out EXCEPT ![p] = "ok"]
               /\ UNCHANGED session_files
    /\ UNCHANGED <<dirs, session_info_file, current_session_file,
                   process_session_file, cwd, current_session,
                   conversation_mode, first_session>>

\* get_current_session and _create_unique_session_for_process
\* (session_manager.py:45-88) by process p: the returned id (or the exception
\* that leaves the call) and the files and the dict after the call
get_current_session(p) ==
    LET d == cwd[p]
        session_id == ProcId(p, now)
        info == Put(session_info[p], session_id, NewInfo(d, now))
        same == [ret |-> "none",
                 files |-> session_files[d], info |-> session_info[p],
                 info_file |-> session_info_file[d],
                 binding |-> process_session_file[d][p]]
    IN
    IF process_session_file[d][p] # Missing
    THEN [same EXCEPT !.ret = process_session_file[d][p]]
    ELSE IF ~sessions_dir[d]
    THEN [same EXCEPT !.ret = "FileNotFoundError"]
    ELSE [ret |-> session_id,
          files |-> Put(session_files[d], session_id, <<>>),
          info |-> info,
          info_file |-> _save_session_info(d, info),
          binding |-> session_id]

GetCurrentEffect(p, r) ==
    LET d == cwd[p] IN
    /\ session_files' = [session_files EXCEPT ![d] = r.files]
    /\ session_info' = [session_info EXCEPT ![p] = r.info]
    /\ session_info_file' = [session_info_file EXCEPT ![d] = r.info_file]
    /\ process_session_file' = [process_session_file EXCEPT ![d][p] = r.binding]

\* main.py:32-70: the first get_current_session of the process
StartSession(p) ==
    /\ ppc[p] = "constructed"
    /\ LET r == get_current_session(p) IN
       /\ Cardinality(Keys(r.files)) <= MaxSessions
       /\ GetCurrentEffect(p, r)
       /\ current_session' = [current_session EXCEPT ![p] = r.ret]
       /\ first_session' = [first_session EXCEPT ![p] = r.ret]
       /\ out' = [out EXCEPT ![p] = r.ret]
    /\ ppc' = [ppc EXCEPT ![p] = "prompt"]
    /\ UNCHANGED <<dirs, data_dir, sessions_dir, current_session_file,
                   cwd, conversation_mode>>

\* a later call of get_current_session by the same process
ApiGetCurrent(p) ==
    /\ AtPrompt(p)
    /\ LET r == get_current_session(p) IN
       /\ Cardinality(Keys(r.files)) <= MaxSessions
       /\ GetCurrentEffect(p, r)
       /\ out' = [out EXCEPT ![p] = r.ret]
    /\ UNCHANGED <<dirs, data_dir, sessions_dir, current_session_file,
                   ppc, cwd, current_session, conversation_mode, first_session>>

\* `newterm` (main.py:107-111): create_new_session (session_manager.py:90-112).
\* os.listdir raises when data/sessions is not there; main.py:213 reports it.
InputNewterm(p) ==
    /\ AtPrompt(p)
    /\ LET d == cwd[p]
           sessions == list_sessions(d)
           session_id == SeqId(Cardinality(sessions) + 1)
           info == Put(session_info[p], session_id, NewInfo(d, now))
       IN
       IF ~sessions_dir[d]
       THEN /\ out' = [out EXCEPT ![p] = "FileNotFoundError"]
            /\ UNCHANGED <<session_files, session_info, session_info_file,
                           current_session_file, current_session>>
       ELSE /\ Cardinality(sessions \cup {session_id}) <= MaxSessions
            /\ session_files' = [session_files EXCEPT ![d] = Put(@, session_id, <<>>)]
            /\ session_info' = [session_info EXCEPT ![p] = info]
            /\ session_info_file' =
                 [session_info_file EXCEPT ![d] = _save_session_info(d, info)]
            /\ current_session_file' = [current_session_file EXCEPT ![d] = session_id]
            /\ current_session' = [current_session EXCEPT ![p] = session_id]
            /\ out' = [out EXCEPT ![p] = session_id]
    /\ UNCHANGED <<dirs, data_dir, sessions_dir, process_session_file,
                   ppc, cwd, conversation_mode, first_session>>

\* the ids a user may type after `switch`
SwitchTargets ==
    UNION {Keys(session_files[d]) : d \in Dirs} \cup {"session_0"}

\* `switch <id>` (main.py:135-142): switch_session (session_manager.py:147-167)
\* with get_session_details (124-145) inside it.  The pointer file is opened
\* after the os.chdir, so it is the one of the directory switched to.
InputSwitch(p, session_id) ==
    /\ AtPrompt(p)
    /\ LET d == cwd[p]
           mem == session_info[p]
           known == session_id \in Keys(mem)
           touched == IF known
                      THEN Put(mem, session_id,
                               [mem[session_id] EXCEPT !.last_accessed = now])
                      ELSE mem
           details == get_session_details(touched, session_id, d)
           valid == details.working_directory_status = "valid"
           nd == IF valid THEN details.working_directory ELSE d
       IN
       IF ~sessions_dir[d]
       THEN /\ out' = [out EXCEPT ![p] = "FileNotFoundError"]
            /\ UNCHANGED <<session_info, session_info_file, current_session_file,
                           cwd, current_session>>
       ELSE IF ~KnownSession(list_sessions(d), session_id)
       THEN /\ out' = [out EXCEPT ![p] = "False"]
            /\ UNCHANGED <<session_info, session_info_file, current_session_file,
                           cwd, current_session>>
       ELSE /\ session_info' = [session_info EXCEPT ![p] = touched]
            /\ session_info_file' =
                 [session_info_file EXCEPT ![d] =
                    IF known THEN _save_session_info(d, touched) ELSE @]
            /\ cwd' = [cwd EXCEPT ![p] = nd]
            /\ IF data_dir[nd]
               THEN /\ current_session_file' =
                         [current_session_file EXCEPT ![nd] = session_id]
                    /\ current_session' = [current_session EXCEPT ![p] = session_id]
                    /\ out' = [out EXCEPT ![p] = "True"]
               ELSE /\ out' = [out EXCEPT ![p] = "FileNotFoundError"]
                    /\ UNCHANGED <<current_session_file, current_session>>
    /\ UNCHANGED <<dirs, data_dir, sessions_dir, session_files,
                   process_session_file, ppc, conversation_mode,
                   first_session>>

\* the lines other than meta-commands that a user types in this model
CdLines == {<<"cd", d>> : d \in Dirs}
CommandLines == CdLines \cup {<<"change", "directory", "to", "away">>, <<"clear">>}

\* process_input on the lines of CommandLines, in command mode and in
\* conversation mode
Processed ==
    {[line |-> line, conv |-> conv, handled |-> process_input(line, conv)] :
        line \in CommandLines, conv \in BOOLEAN}

\* run_command for `cd` (terminal.py:99-106): the directory the process is in
\* afterwards, and the text returned
RunCd(command, d) ==
    IF Len(command) = 1
    THEN [cwd |-> d, output |-> "Usage"]
    ELSE IF command[2] \in dirs
    THEN [cwd |-> command[2], output |-> ""]
    ELSE [cwd |-> d, output |-> "Error"]

\* update_working_directory (session_manager.py:169-174): the dict afterwards
update_working_directory(info, session_id, new_directory) ==
    IF session_id \in Keys(info)
    THEN Put(info, session_id, NewInfo(new_directory, now))
    ELSE info

\* a line that main.py neither handles itself nor skips (main.py:83, 169-197):
\* process_input, which may run `cd` and update the Session Store, then the
\* display, then history_manager.add_command (enhanced_history.py:90-113),
\* whose save creates data/sessions where it is missing
InputCommand(p, line) ==
    /\ AtPrompt(p)
    /\ LET d == cwd[p]
           sid == current_session[p]
           h == (CHOOSE x \in Processed :
                    x.line = line /\ x.conv = conversation_mode[p]).handled
           isCd == Len(h.command) > 0 /\ h.command[1] = "cd"
           ran == IF isCd THEN RunCd(h.command, d) ELSE [cwd |-> d, output |-> ""]
           nd == ran.cwd
           updates == h.updates /\ isCd /\ ran.output # "Error"
           info == IF updates
                   THEN update_working_directory(session_info[p], sid, nd)
                   ELSE session_info[p]
           history == AppendUnlessLast(LoadHistory(nd, sid), line)
       IN
       /\ Len(history) + OtherEntries(nd, sid) <= MaxLines
       /\ Cardinality(list_sessions(nd) \cup {sid}) <= MaxSessions
       /\ cwd' = [cwd EXCEPT ![p] = nd]
       /\ session_info' = [session_info EXCEPT ![p] = info]
       /\ session_info_file' =
            [session_info_file EXCEPT ![nd] =
               IF updates /\ sid \in Keys(session_info[p])
               THEN _save_session_info(nd, info) ELSE @]
       /\ session_files' = [session_files EXCEPT ![nd] = Put(@, sid, history)]
       /\ data_dir' = [data_dir EXCEPT ![nd] = TRUE]
       /\ sessions_dir' = [sessions_dir EXCEPT ![nd] = TRUE]
    /\ UNCHANGED <<dirs, current_session_file, process_session_file,
                   ppc, current_session, conversation_mode, first_session, out>>

\* `rm <directory>` typed in another directory (terminal.py:166-194): the
\* tree goes away with the data directory in it (shutil.rmtree).  The lock
\* calls of rm create data/ in the directory of the process; the line is
\* appended to the history like any other.
InputRm(p, target) ==
    /\ AtPrompt(p)
    /\ ~conversation_mode[p]
    /\ target \in dirs
    /\ \A q \in Pids : Live(q) => cwd[q] # target
    /\ LET d == cwd[p]
           sid == current_session[p]
           line == <<"rm", target>>
           history == AppendUnlessLast(LoadHistory(d, sid), line)
       IN
       /\ Len(history) + OtherEntries(d, sid) <= MaxLines
       /\ Cardinality(list_sessions(d) \cup {sid}) <= MaxSessions
       /\ dirs' = dirs \ {target}
       /\ data_dir' = [data_dir EXCEPT ![target] = FALSE, ![d] = TRUE]
       /\ sessions_dir' = [sessions_dir EXCEPT ![target] = FALSE, ![d] = TRUE]
       /\ session_files' =
            [session_files EXCEPT ![target] = EmptyDict, ![d] = Put(@, sid, history)]
       /\ session_info_file' = [session_info_file EXCEPT ![target] = NoFile]
       /\ current_session_file' = [current_session_file EXCEPT ![target] = Missing]
       /\ process_session_file' =
            [process_session_file EXCEPT ![target] = [q \in Pids |-> Missing]]
    /\ UNCHANGED <<ppc, cwd, session_info, current_session, conversation_mode,
                   first_session, out>>

\* chat / conversation / talk / converse (unified_processor.py:84-85, 116-133;
\* main.py:86-92)
InputToggle(p, word) ==
    /\ AtPrompt(p)
    /\ conversation_mode' = [conversation_mode EXCEPT ![p] = ~@]
    /\ UNCHANGED <<storeVars, ppc, cwd, session_info, current_session,
                   first_session, out>>

\* help, sessions, history, stats (main.py:102-104, 112-134, 143-167): read
\* and print
ShowLines == {<<"help">>, <<"sessions">>, <<"history">>, <<"stats">>}
InputShow(p, line) ==
    /\ AtPrompt(p)
    /\ UNCHANGED <<storeVars, ppc, cwd, session_info, current_session,
                   conversation_mode, first_session, out>>

\* cleanup_process_session (session_manager.py:254-262): the binding files
\* of a directory afterwards
cleanup_process_session(files, p) == [files EXCEPT ![p] = Missing]

\* exit, quit, bye (main.py:95-99)
ExitPhrases == {"exit", "quit", "bye"}
InputExit(p, word) ==
    /\ AtPrompt(p)
    /\ process_session_file' =
         [process_session_file EXCEPT ![cwd[p]] = cleanup_process_session(@, p)]
    /\ ppc' = [ppc EXCEPT ![p] = "ended"]
    /\ UNCHANGED <<dirs, data_dir, sessions_dir, session_files, session_info_file,
                   current_session_file, cwd, session_info,
                   current_session, conversation_mode, first_session, out>>

\* input() raises EOFError (main.py:208-212)
Eof(p) ==
    /\ AtPrompt(p)
    /\ process_session_file' =
         [process_session_file EXCEPT ![cwd[p]] = cleanup_process_session(@, p)]
    /\ ppc' = [ppc EXCEPT ![p] = "ended"]
    /\ UNCHANGED <<dirs, data_dir, sessions_dir, session_files, session_info_file,
                   current_session_file, cwd, session_info,
                   current_session, conversation_mode, first_session, out>>

\* Ctrl-C at the prompt (main.py:205-207), or an empty line (main.py:79-80)
Skipped == {<<"Ctrl-C">>, <<>>}
InputSkipped(p, line) ==
    /\ AtPrompt(p)
    /\ UNCHANGED <<storeVars, ppc, cwd, session_info, current_session,
                   conversation_mode, first_session, out>>

\* cleanup_old_sessions (session_manager.py:185-209)
ApiCleanup(p) ==
    /\ AtPrompt(p)
    /\ LET d == cwd[p]
           cutoff_time == now - CleanupAge
           sessions_to_remove ==
               {sid \in Keys(session_info[p]) :
                    session_info[p][sid].last_accessed < cutoff_time}
           info == Del(session_info[p], sessions_to_remove)
       IN
       /\ session_files' = [session_files EXCEPT ![d] = Del(@, sessions_to_remove)]
       /\ session_info' = [session_info EXCEPT ![p] = info]
       /\ session_info_file' =
            [session_info_file EXCEPT ![d] =
               IF sessions_to_remove # {} THEN _save_session_info(d, info) ELSE @]
       /\ out' = [out EXCEPT ![p] = ToString(Cardinality(sessions_to_remove))]
    /\ UNCHANGED <<dirs, data_dir, sessions_dir, current_session_file,
                   process_session_file, ppc, cwd, current_session,
                   conversation_mode, first_session>>

ApiGetWorkingDirectory(p, session_id) ==
    /\ AtPrompt(p)
    /\ out' = [out EXCEPT ![p] = get_working_directory(session_info[p], session_id, cwd[p])]
    /\ UNCHANGED <<storeVars, ppc, cwd, session_info, current_session,
                   conversation_mode, first_session>>

ApiGetDetails(p, session_id) ==
    /\ AtPrompt(p)
    /\ LET details == get_session_details(session_info[p], session_id, cwd[p]) IN
       out' = [out EXCEPT ![p] =
                 IF details = NoDetails THEN None
                 ELSE details.working_directory_status \o " "
                        \o details.working_directory]
    /\ UNCHANGED <<storeVars, ppc, cwd, session_info, current_session,
                   conversation_mode, first_session>>

\* the clock passes the age threshold of the sweep
SessionTick ==
    /\ now = 0
    /\ now' = now + CleanupAge + 1
    /\ UNCHANGED <<locks, fs, pc, cmd, args, k, lk, ret, result, held, call>>
    /\ UNCHANGED <<histVars, sessVars, uiVars>>

\* the store of a data directory that was never written
StoreEmpty ==
    /\ dirs = Dirs
    /\ data_dir = [d \in Dirs |-> FALSE]
    /\ sessions_dir = [d \in Dirs |-> FALSE]
    /\ session_files = [d \in Dirs |-> EmptyDict]
    /\ session_info_file = [d \in Dirs |-> NoFile]
    /\ current_session_file = [d \in Dirs |-> Missing]
    /\ process_session_file = [d \in Dirs |-> [p \in Pids |-> Missing]]

\* a data directory in "home" that holds what a completed create_new_session
\* leaves: the pointer, one history file and its metadata.  SessionManager()
\* completes only where data/current_session.txt already exists (see Launch),
\* so a terminal that runs at all was started on such a store.
StoreCarried ==
    /\ dirs = Dirs
    /\ data_dir = [d \in Dirs |-> d = "home"]
    /\ sessions_dir = [d \in Dirs |-> d = "home"]
    /\ session_files =
         [d \in Dirs |-> IF d = "home" THEN Put(EmptyDict, SeqId(1), <<>>)
                         ELSE EmptyDict]
    /\ session_info_file =
         [d \in Dirs |-> IF d = "home"
                         THEN File(Put(EmptyDict, SeqId(1), NewInfo("home", 0)))
                         ELSE NoFile]
    /\ current_session_file = [d \in Dirs |-> IF d = "home" THEN SeqId(1) ELSE Missing]
    /\ process_session_file = [d \in Dirs |-> [p \in Pids |-> Missing]]

\* no terminal has been started
ProcessesOff ==
    /\ ppc = [p \in Pids |-> "off"]
    /\ cwd = [p \in Pids |-> "home"]
    /\ session_info = [p \in Pids |-> EmptyDict]
    /\ current_session = [p \in Pids |-> "none"]
    /\ conversation_mode = [p \in Pids |-> FALSE]
    /\ first_session = [p \in Pids |-> "none"]
    /\ out = [p \in Pids |-> "none"]

\* ------------------------------------------------- the processor by itself
\* The words the input lines of the processor are made of, the longest line
\* made of them, and lines typed in full
MaxWords == 3
Vocabulary ==
    {"ls", "create", "folder", "test", "hello", "chat", "cpu", "why", "this",
     "run", "my-dir", "file"}
SampleLines ==
    {<<"what", "is", "my", "cpu", "usage?">>,
     <<"create", "folder", "called", "test">>,
     <<"change", "directory", "to", "away">>,
     <<"lsof">>, <<"dateline">>, <<"memory", "usage">>}
InputLines ==
    UNION {[1..n -> Vocabulary] : n \in 0..MaxWords} \cup SampleLines

NoReply == Handled("none", <<>>, FALSE)
\* the resolver is not running
Unreachable == [kind |-> "unavailable", text |-> ""]
ProcessorIdle ==
    /\ user_input = <<>> /\ response = Unreachable /\ reply = NoReply
    /\ CacheIdle
    /\ chat_context = <<>>

\* whether process_input reaches _handle_chat_input: by the label chat in
\* command mode (unified_processor.py:104-105), as the last resort of
\* _handle_conversation_input in conversation mode (471-494)
ReachesChat(line, conv) ==
    /\ Len(line) > 0
    /\ ~_is_conversation_toggle(line)
    /\ IF conv
       THEN /\ ~HasWord(line, {"run", "execute", "do", "perform"})
            /\ ~HasAny(line, HelpWords, {<<"tell", "me">>})
            /\ ~HasWord(line, SystemWords)
            /\ ~HasWord(line, FileWords)
       ELSE _classify_input(line) = "chat"

UserSaid(line) == [role |-> "user", content |-> line]
AssistantSaid == [role |-> "assistant", content |-> <<"response">>]

\* self.chat_context after process_input: emptied when the toggle enables
\* conversation mode (118-120), the input appended by _handle_chat_input
\* (438) and the response too when it answers itself (453-456)
chat_context_after(context, line, conv) ==
    LET handled == process_input(line, conv) IN
    IF handled.type = "conversation_toggle"
    THEN (IF conv THEN context ELSE <<>>)
    ELSE IF ReachesChat(line, conv)
    THEN (IF handled.type = "chat"
          THEN context \o <<UserSaid(line), AssistantSaid>>
          ELSE Append(context, UserSaid(line)))
    ELSE context

\* the chat context is not grown beyond MaxContext entries
MaxContext == 4
\* the lines entered where the toggle is looked at
ToggleLines ==
    {<<"chat">>, <<"CHAT">>, <<"Talk">>, <<"converse">>, <<"conversation">>,
     <<"chat", "chat">>, <<"chatty">>, <<"hello">>, <<"ls">>,
     <<"why", "this">>, <<"run", "chat">>}

\* a line read at the prompt and handed to process_input (main.py:77-83)
Read(p, line) ==
    /\ user_input' = line
    /\ reply' = process_input(line, conversation_mode[p])
    /\ conversation_mode' =
          IF reply'.type = "conversation_toggle"
          THEN [conversation_mode EXCEPT ![p] = ~conversation_mode[p]]
          ELSE conversation_mode
    /\ chat_context' = chat_context_after(chat_context, line, conversation_mode[p])
    /\ Len(chat_context') <= MaxContext
    /\ UNCHANGED <<response, cacheVars, storeVars, ppc, cwd, session_info,
                   current_session, first_session, out>>

\* the processor of one terminal is handed the line that was read:
\* process_input, with the toggle of _toggle_conversation_mode (116-133)
Process(p) ==
    /\ reply = NoReply
    /\ reply' = process_input(user_input, conversation_mode[p])
    /\ conversation_mode' =
          IF reply'.type = "conversation_toggle"
          THEN [conversation_mode EXCEPT ![p] = ~conversation_mode[p]]
          ELSE conversation_mode
    /\ chat_context' = chat_context_after(chat_context, user_input, conversation_mode[p])
    /\ UNCHANGED <<user_input, response, cacheVars, storeVars, ppc, cwd, session_info,
                   current_session, first_session, out>>

\* the handlers that call interpret_command (unified_processor.py:366-432,
\* 496-532): they run the command of the record, or return an error result
\* when it has no "command" key or when an exception reaches them
handle_interpreted(type, interpreted, updates) ==
    IF interpreted.key = "command"
    THEN Handled(type, Split(interpreted.command), updates)
    ELSE Handled("error", <<>>, FALSE)

\* process_input when the resolver does what `response` says
ProcessGiven(p) ==
    /\ reply = NoReply
    /\ LET handled == process_input(user_input, conversation_mode[p]) IN
       reply' =
         IF handled.type \in {"natural_language", "system_query", "file_operation"}
         THEN handle_interpreted(handled.type,
                                 interpret_command_given(user_input, response),
                                 handled.updates)
         ELSE handled
    /\ conversation_mode' =
          IF reply'.type = "conversation_toggle"
          THEN [conversation_mode EXCEPT ![p] = ~conversation_mode[p]]
          ELSE conversation_mode
    /\ chat_context' = chat_context_after(chat_context, user_input, conversation_mode[p])
    /\ UNCHANGED <<user_input, response, cacheVars, storeVars, ppc, cwd, session_info,
                   current_session, first_session, out>>

\* a terminal in command mode is given "create folder <name>":
\* _handle_simple_folder_creation calls run_command("mkdir", [name], session)
SimpleFolderCreation(s, name) ==
    LET handled == process_input(<<"create", "folder", name>>, FALSE) IN
    /\ handled.type = "simple_folder_creation"
    /\ StartCommand(s, handled.command[1], Tail(handled.command))

\* ------------------------------------------- meta-commands at the prompt
\* the names run_command has a branch for (terminal.py:87-456); any other
\* name goes to subprocess.run([cmd] + args) (468-481)
RunCommandBranches ==
    {"pwd", "ls", "cd", "mkdir", "touch", "rm", "cp", "mv", "cat", "edit",
     "cpu", "mem", "ps", "find", "grep", "clear", "echo", "date", "whoami",
     "uname", "df"}

\* the results of process_input whose handler called run_command
ExecutorTypes ==
    {"direct_command", "simple_folder_creation", "simple_file_creation",
     "natural_language", "system_query", "file_operation"}
PassedToExecutor(handled) ==
    handled.type \in ExecutorTypes /\ handled.command # <<>>
ForwardedToShell(handled) ==
    PassedToExecutor(handled) /\ handled.command[1] \notin RunCommandBranches

\* the session/meta-commands a user can type in the current state
MetaLines ==
    {<<"newterm">>, <<"sessions">>, <<"history">>, <<"stats">>, <<"help">>,
     <<"exit">>} \cup {<<"switch", session_id>> : session_id \in SwitchTargets}

\* a meta-command read by main(): process_input first (main.py:83), then the
\* branch of main() for the command (95-167)
InputMeta(p, line) ==
    /\ line \in MetaLines
    /\ user_input' = line
    /\ reply' = process_input(line, conversation_mode[p])
    /\ CASE line = <<"newterm">> -> InputNewterm(p)
         [] line = <<"exit">> -> InputExit(p, "exit")
         [] line[1] = "switch" -> InputSwitch(p, line[2])
         [] OTHER -> InputShow(p, line)
    /\ chat_context' = chat_context_after(chat_context, line, conversation_mode[p])
    /\ Len(chat_context') <= MaxContext
    /\ UNCHANGED <<response, cacheVars>>

\* =========================================================== specifications
InitLocksAndHistory ==
    /\ locks = EmptyTable
    /\ fs = {}
    /\ now = 0
    /\ pc = [s \in Sessions |-> "idle"]
    /\ cmd = [s \in Sessions |-> "none"]
    /\ args = [s \in Sessions |-> <<>>]
    /\ k = [s \in Sessions |-> 0]
    /\ lk = [s \in Sessions |-> EmptyTable]
    /\ ret = [s \in Sessions |-> "none"]
    /\ result = [s \in Sessions |-> "none"]
    /\ held = [s \in Sessions |-> {}]
    /\ call = [s \in Sessions |-> NoCall]
    /\ histFile = [s \in Sessions |-> <<>>]
    /\ hpc = [p \in HProcs |-> "idle"]
    /\ hsid = [p \in HProcs |-> "none"]
    /\ hcmd = [p \in HProcs |-> "none"]
    /\ hist = [p \in HProcs |-> <<>>]
    /\ hapi = [p \in HProcs |-> "none"]

Init == InitLocksAndHistory /\ StoreEmpty /\ ProcessesOff /\ ProcessorIdle

Next ==
    \/ \E s \in Sessions, c \in MutatingCmds :
         \E a \in ArgLists(c) :
           (StartCommand(s, c, a) /\ UNCHANGED <<histVars, sessVars, uiVars>>)
    \/ \E s \in Sessions : ExistsTest(s) /\ UNCHANGED <<histVars, sessVars, uiVars>>
    \/ \E s \in Sessions : CheckLock(s) /\ UNCHANGED <<histVars, sessVars, uiVars>>
    \/ \E s \in Sessions : AcquireLoad(s) /\ UNCHANGED <<histVars, sessVars, uiVars>>
    \/ \E s \in Sessions : AcquireSave(s) /\ UNCHANGED <<histVars, sessVars, uiVars>>
    \/ \E s \in Sessions : OpOk(s) /\ UNCHANGED <<histVars, sessVars, uiVars>>
    \/ \E s \in Sessions : OpError(s) /\ UNCHANGED <<histVars, sessVars, uiVars>>
    \/ \E s \in Sessions : EditInterrupt(s) /\ UNCHANGED <<histVars, sessVars, uiVars>>
    \/ \E s \in Sessions : ReleaseLoad(s) /\ UNCHANGED <<histVars, sessVars, uiVars>>
    \/ \E s \in Sessions : ReleaseSave(s) /\ UNCHANGED <<histVars, sessVars, uiVars>>
    \* while commands run, time passes beyond the expiry window
    \/ Tick(EXPIRY + 1) /\ UNCHANGED <<histVars, sessVars, uiVars>>

Spec == Init /\ [][Next]_vars

LockNext ==
    \/ \E s \in Sessions, p \in Paths : ApiAcquire(s, p) /\ UNCHANGED <<histVars, sessVars, uiVars>>
    \/ \E s \in Sessions : ApiAcquireSave(s) /\ UNCHANGED <<histVars, sessVars, uiVars>>
    \/ \E s \in Sessions, p \in Paths : ApiRelease(s, p) /\ UNCHANGED <<histVars, sessVars, uiVars>>
    \/ \E s \in Sessions : ApiReleaseSave(s) /\ UNCHANGED <<histVars, sessVars, uiVars>>
    \/ \E s \in Sessions, p \in Paths : ApiCheck(s, p) /\ UNCHANGED <<histVars, sessVars, uiVars>>
    \/ \E d \in TickSteps : Tick(d) /\ UNCHANGED <<histVars, sessVars, uiVars>>

LockSpec == Init /\ [][LockNext]_vars

\* The lock manager over a storage whose writes can fail during an acquire.
SaveFailNext ==
    \/ LockNext
    \/ \E s \in Sessions : ApiAcquireSaveFails(s) /\ UNCHANGED <<histVars, sessVars, uiVars>>

SaveFailSpec == Init /\ [][SaveFailNext]_vars

HistoryNext ==
    \/ \E p \in HProcs, sid \in Sessions, c \in Commands :
         EnhancedLoad(p, sid, c) /\ UNCHANGED <<lockVars, sessVars, uiVars>>
    \/ \E p \in HProcs : EnhancedSave(p) /\ UNCHANGED <<lockVars, sessVars, uiVars>>
    \/ \E p \in HProcs, sid \in Sessions, c \in Commands :
         PlainLoad(p, sid, c) /\ UNCHANGED <<lockVars, sessVars, uiVars>>
    \/ \E p \in HProcs : PlainSave(p) /\ UNCHANGED <<lockVars, sessVars, uiVars>>

HistorySpec == Init /\ [][HistoryNext]_vars

\* The history manager of one terminal and its cache of all commands, next to
\* the history manager of another terminal.
CacheNext ==
    \/ \E sid \in Sessions, c \in Commands :
         AddCommand(sid, c) /\ UNCHANGED <<lockVars, sessVars, user_input, response, reply, chat_context>>
    \/ \E sid \in Sessions, c \in Commands :
         ForeignAddCommand(sid, c) /\ UNCHANGED <<lockVars, sessVars, user_input, response, reply, chat_context>>
    \/ GetAllCommands /\ UNCHANGED <<lockVars, sessVars, user_input, response, reply, chat_context>>

CacheSpec == Init /\ [][CacheNext]_vars

\* The Session Store shared by two terminals that stay in "home", over a data
\* directory that is empty or carried over: construction, the calls main.py
\* makes, and direct calls of get_current_session and cleanup_old_sessions.
SessionInit ==
    /\ InitLocksAndHistory
    /\ (StoreEmpty \/ StoreCarried)
    /\ ProcessesOff
    /\ ProcessorIdle

SessionStep ==
    \/ \E p \in Pids : Launch(p)
    \/ \E p \in Pids : StartSession(p)
    \/ \E p \in Pids : ApiGetCurrent(p)
    \/ \E p \in Pids : InputNewterm(p)
    \/ \E p \in Pids : \E session_id \in SwitchTargets : InputSwitch(p, session_id)
    \/ \E p \in Pids : ApiCleanup(p)

SessionNext ==
    \/ SessionStep /\ UNCHANGED <<lockVars, histVars, uiVars>>
    \/ SessionTick

SessionSpec == SessionInit /\ [][SessionNext]_vars

\* The loop of main.py in one terminal: every kind of input line, and direct
\* calls of the Session Store between two lines.
ReplPids == {101}

ReplStep ==
    \/ \E p \in ReplPids : Launch(p)
    \/ \E p \in ReplPids : StartSession(p)
    \/ \E p \in ReplPids : InputNewterm(p)
    \/ \E p \in ReplPids : \E session_id \in SwitchTargets : InputSwitch(p, session_id)
    \/ \E p \in ReplPids, line \in CommandLines : InputCommand(p, line)
    \/ \E p \in ReplPids, target \in Dirs : InputRm(p, target)
    \/ \E p \in ReplPids, word \in ToggleWords : InputToggle(p, word)
    \/ \E p \in ReplPids, line \in ShowLines : InputShow(p, line)
    \/ \E p \in ReplPids, word \in ExitPhrases : InputExit(p, word)
    \/ \E p \in ReplPids : Eof(p)
    \/ \E p \in ReplPids, line \in Skipped : InputSkipped(p, line)
    \/ \E p \in ReplPids : \E session_id \in SwitchTargets :
         ApiGetWorkingDirectory(p, session_id)
    \/ \E p \in ReplPids : \E session_id \in SwitchTargets : ApiGetDetails(p, session_id)

\* Two terminals that are started and change directory.
FrameNext ==
    \/ \E p \in Pids : Launch(p) /\ UNCHANGED <<lockVars, histVars, uiVars>>
    \/ \E p \in Pids : StartSession(p) /\ UNCHANGED <<lockVars, histVars, uiVars>>
    \/ \E p \in Pids, line \in CdLines :
         InputCommand(p, line) /\ UNCHANGED <<lockVars, histVars, uiVars>>

FrameSpec == SessionInit /\ [][FrameNext]_vars

\* The processor of one terminal reading line after line.
ToggleNext ==
    \E p \in ReplPids, line \in ToggleLines :
        Read(p, line) /\ UNCHANGED <<lockVars, histVars>>

ToggleSpec == Init /\ [][ToggleNext]_vars

\* One terminal at which only meta-commands and mode toggles are entered.
MetaNext ==
    \/ \E p \in ReplPids : Launch(p) /\ UNCHANGED <<lockVars, histVars, uiVars>>
    \/ \E p \in ReplPids : StartSession(p) /\ UNCHANGED <<lockVars, histVars, uiVars>>
    \/ \E p \in ReplPids, word \in ToggleWords :
         /\ InputToggle(p, word)
         /\ chat_context' = chat_context_after(chat_context, <<word>>, conversation_mode[p])
         /\ UNCHANGED <<lockVars, histVars, user_input, response, reply, cacheVars>>
    \/ \E p \in ReplPids, line \in MetaLines :
         InputMeta(p, line) /\ UNCHANGED <<lockVars, histVars>>

MetaSpec == SessionInit /\ [][MetaNext]_vars

ReplNext == ReplStep /\ UNCHANGED <<lockVars, histVars, uiVars>>

ReplSpec == SessionInit /\ [][ReplNext]_vars

\* The binding of a terminal to its session while it changes directory and
\* time passes: get_current_session called again between two input lines.
BindingStep ==
    \/ \E p \in ReplPids : Launch(p)
    \/ \E p \in ReplPids : StartSession(p)
    \/ \E p \in ReplPids, line \in CdLines : InputCommand(p, line)
    \/ \E p \in ReplPids : ApiGetCurrent(p)
    \/ \E p \in ReplPids : InputNewterm(p)
    \/ \E p \in ReplPids : \E session_id \in SwitchTargets : InputSwitch(p, session_id)
    \/ \E p \in ReplPids, word \in ExitPhrases : InputExit(p, word)

BindingNext ==
    \/ BindingStep /\ UNCHANGED <<lockVars, histVars, uiVars>>
    \/ SessionTick

BindingSpec == SessionInit /\ [][BindingNext]_vars

\* Switching between sessions while the terminal changes directory
SwitchStep ==
    \/ \E p \in ReplPids : Launch(p)
    \/ \E p \in ReplPids : StartSession(p)
    \/ \E p \in ReplPids, line \in CdLines : InputCommand(p, line)
    \/ \E p \in ReplPids, target \in Dirs : InputRm(p, target)
    \/ \E p \in ReplPids : InputNewterm(p)
    \/ \E p \in ReplPids : \E session_id \in SwitchTargets : InputSwitch(p, session_id)

SwitchNext == SwitchStep /\ UNCHANGED <<lockVars, histVars, uiVars>>

SwitchSpec == SessionInit /\ [][SwitchNext]_vars

\* The processor of one terminal by itself, in command mode or after a
\* toggle switched it to conversation mode, when it is handed a line.
ProcessorInit ==
    /\ InitLocksAndHistory
    /\ StoreEmpty
    /\ ppc = [p \in Pids |-> "off"]
    /\ cwd = [p \in Pids |-> "home"]
    /\ session_info = [p \in Pids |-> EmptyDict]
    /\ current_session = [p \in Pids |-> "none"]
    /\ \E mode \in BOOLEAN :
         conversation_mode = [p \in Pids |-> p \in ReplPids /\ mode]
    /\ first_session = [p \in Pids |-> "none"]
    /\ out = [p \in Pids |-> "none"]
    /\ user_input \in InputLines
    /\ response = Unreachable
    /\ reply = NoReply
    /\ CacheIdle
    /\ chat_context = <<>>

ProcessorNext ==
    \E p \in ReplPids : Process(p) /\ UNCHANGED <<lockVars, histVars>>

ProcessorSpec == ProcessorInit /\ [][ProcessorNext]_vars

\* Folders made through the simple fast path by two terminals, and by
\* nothing else
FastPathNext ==
    \/ \E s \in Sessions, name \in Paths :
         SimpleFolderCreation(s, name) /\ UNCHANGED <<histVars, sessVars, uiVars>>
    \/ \E s \in Sessions : CheckLock(s) /\ UNCHANGED <<histVars, sessVars, uiVars>>
    \/ \E s \in Sessions : AcquireLoad(s) /\ UNCHANGED <<histVars, sessVars, uiVars>>
    \/ \E s \in Sessions : AcquireSave(s) /\ UNCHANGED <<histVars, sessVars, uiVars>>
    \/ \E s \in Sessions : OpOk(s) /\ UNCHANGED <<histVars, sessVars, uiVars>>
    \/ \E s \in Sessions : OpError(s) /\ UNCHANGED <<histVars, sessVars, uiVars>>
    \/ \E s \in Sessions : ReleaseLoad(s) /\ UNCHANGED <<histVars, sessVars, uiVars>>
    \/ \E s \in Sessions : ReleaseSave(s) /\ UNCHANGED <<histVars, sessVars, uiVars>>

FastPathSpec == Init /\ [][FastPathNext]_vars

\* mkdir and touch, with a path and without one.
CreationNext ==
    \/ \E s \in Sessions, c \in {"mkdir", "touch"}, target \in Paths :
         StartCommand(s, c, <<target>>) /\ UNCHANGED <<histVars, sessVars, uiVars>>
    \/ \E s \in Sessions, c \in {"mkdir", "touch"}, target \in Paths :
         CreateWithPath(s, c, target) /\ UNCHANGED <<histVars, sessVars, uiVars>>
    \/ \E s \in Sessions : CheckLock(s) /\ UNCHANGED <<histVars, sessVars, uiVars>>
    \/ \E s \in Sessions : AcquireLoad(s) /\ UNCHANGED <<histVars, sessVars, uiVars>>
    \/ \E s \in Sessions : AcquireSave(s) /\ UNCHANGED <<histVars, sessVars, uiVars>>
    \/ \E s \in Sessions : OpOk(s) /\ UNCHANGED <<histVars, sessVars, uiVars>>
    \/ \E s \in Sessions : OpError(s) /\ UNCHANGED <<histVars, sessVars, uiVars>>
    \/ \E s \in Sessions : ReleaseLoad(s) /\ UNCHANGED <<histVars, sessVars, uiVars>>
    \/ \E s \in Sessions : ReleaseSave(s) /\ UNCHANGED <<histVars, sessVars, uiVars>>

CreationSpec == Init /\ [][CreationNext]_vars

\* Session A takes one lock through the lock manager and does nothing else;
\* session B runs mutating commands on one path, and once the table records a
\* lock of A only on the path that A holds.
OnePathCmds == MutatingCmds \ TwoPathCmds

Abandon ==
    \/ \E p \in Paths :
         call["A"].op = "none" /\ ApiAcquire("A", p) /\ UNCHANGED <<histVars, sessVars, uiVars>>
    \/ ApiAcquireSave("A") /\ UNCHANGED <<histVars, sessVars, uiVars>>

Retry ==
    \/ \E c \in OnePathCmds, p \in Paths :
         /\ \A q \in Paths : locks[q].session_id = "A" => q = p
         /\ StartCommand("B", c, <<p>>)
         /\ UNCHANGED <<histVars, sessVars, uiVars>>
    \/ ExistsTest("B") /\ UNCHANGED <<histVars, sessVars, uiVars>>
    \/ CheckLock("B") /\ UNCHANGED <<histVars, sessVars, uiVars>>
    \/ AcquireLoad("B") /\ UNCHANGED <<histVars, sessVars, uiVars>>
    \/ AcquireSave("B") /\ UNCHANGED <<histVars, sessVars, uiVars>>
    \/ OpOk("B") /\ UNCHANGED <<histVars, sessVars, uiVars>>
    \/ OpError("B") /\ UNCHANGED <<histVars, sessVars, uiVars>>
    \/ ReleaseLoad("B") /\ UNCHANGED <<histVars, sessVars, uiVars>>
    \/ ReleaseSave("B") /\ UNCHANGED <<histVars, sessVars, uiVars>>

TimePasses == \E d \in TickSteps : Tick(d) /\ UNCHANGED <<histVars, sessVars, uiVars>>

RetryNext == Abandon \/ Retry \/ TimePasses

\* B goes on entering commands and the clock goes on
RetrySpec ==
    Init /\ [][RetryNext]_vars /\ WF_vars(Retry) /\ WF_vars(TimePasses)

\* One terminal that processes commands while time passes, and the sweep
ActivityStep ==
    \/ \E p \in ReplPids : Launch(p)
    \/ \E p \in ReplPids : StartSession(p)
    \/ \E p \in ReplPids, line \in CommandLines : InputCommand(p, line)
    \/ \E p \in ReplPids : ApiCleanup(p)

ActivityNext ==
    \/ ActivityStep /\ UNCHANGED <<lockVars, histVars, uiVars>>
    \/ SessionTick

ActivitySpec == SessionInit /\ [][ActivityNext]_vars

\* Two terminals that make folders through the fast path and read
ReadNext ==
    \/ FastPathNext
    \/ \E s \in Sessions, c \in ReadOnlyCmds :
         \E a \in ReadArgLists(c) :
           StartReadOnly(s, c, a) /\ UNCHANGED <<histVars, sessVars, uiVars>>
    \/ \E s \in Sessions : FinishReadOnly(s) /\ UNCHANGED <<histVars, sessVars, uiVars>>

ReadSpec == Init /\ [][ReadNext]_vars

\* The processor of one terminal when it is handed a short line or one of
\* the lines typed in full, and the resolver fails or replies
ResolverLines == UNION {[1..n -> Vocabulary] : n \in 0..2} \cup SampleLines

ResolverInit ==
    /\ InitLocksAndHistory
    /\ StoreEmpty
    /\ ppc = [p \in Pids |-> "off"]
    /\ cwd = [p \in Pids |-> "home"]
    /\ session_info = [p \in Pids |-> EmptyDict]
    /\ current_session = [p \in Pids |-> "none"]
    /\ \E mode \in BOOLEAN :
         conversation_mode = [p \in Pids |-> p \in ReplPids /\ mode]
    /\ first_session = [p \in Pids |-> "none"]
    /\ out = [p \in Pids |-> "none"]
    /\ user_input \in ResolverLines
    /\ response \in Responses
    /\ reply = NoReply
    /\ CacheIdle
    /\ chat_context = <<>>

ResolverNext ==
    \E p \in ReplPids : ProcessGiven(p) /\ UNCHANGED <<lockVars, histVars>>

ResolverSpec == ResolverInit /\ [][ResolverNext]_vars

\* ================================================================== claims

\* the paths named by the command session s is running
Targets(s) == {args[s][i] : i \in 1..Len(args[s])}

\* the table records an entry of another session for path p that the
\* expiry sweep at time t would keep
LiveLockOfOther(tbl, s, p, t) ==
    /\ tbl[p] # NoLock
    /\ tbl[p].session_id # s
    /\ t - tbl[p].timestamp <= EXPIRY

\* session s makes the read of an acquire(s, p) / release(s, p) call in this step
AcquireCallReads(s, p) ==
    /\ pc[s] = "idle"
    /\ call'[s] # call[s]
    /\ call'[s].op = "acquire" /\ call'[s].path = p
ReleaseCallReads(s, p) ==
    /\ pc[s] = "idle"
    /\ call'[s] # call[s]
    /\ call'[s].op = "release" /\ call'[s].path = p

\* C1: when the acquire calls of two different sessions on the same path
\* interleave, exactly one returns True: never are both calls past the test of
\* line 49 (on their way to _save_locks and return True) at the same time.
C1_ExactlyOneWinner ==
    \A s \in Sessions, o \in Sessions :
        s # o =>
            ~(/\ pc[s] = "api_acquire_save"
              /\ pc[o] = "api_acquire_save"
              /\ call[s].path = call[o].path)

\* C2: no two different sessions are inside the filesystem-operation step of
\* mutating commands that name a common path.
C2_MutualExclusion ==
    \A s \in Sessions, o \in Sessions :
        s # o =>
            ~(/\ pc[s] = "op"
              /\ pc[o] = "op"
              /\ Targets(s) \cap Targets(o) # {})

\* C3: the lock table records at most one holder per path, and right after a
\* release(s, p) by the recorded holder, check(o, p) returns no holder for every
\* other session o.
C3_OneHolderAndFreeAfterRelease ==
    /\ [](\A p \in Paths :
            Cardinality({s \in Sessions : locks[p] # NoLock /\ locks[p].session_id = s}) <= 1)
    /\ [][\A s \in Sessions :
            (pc[s] = "api_release_save" /\ pc'[s] = "idle") =>
                \A o \in Sessions \ {s} :
                    _check_lock(locks', o, call[s].path) = None]_vars

\* a release by the holder has just been followed by a check of the other
\* session on the same path, which found no holder
C3_Witness ==
    \E s \in Sessions, o \in Sessions, p \in Paths :
        /\ s # o
        /\ call[s] = [op |-> "release", path |-> p, ret |-> "released"]
        /\ call[o] = [op |-> "check", path |-> p, ret |-> None]

\* C4: acquire(s, p) sweeps the entries older than 300 s from the table it read,
\* returns False iff the table holds an unexpired entry of another session for
\* p (writing nothing), and otherwise writes the swept table with the entry
\* (p, s, current time) in place of any previous entry for p and returns True.
C4_AcquireContract ==
    [][\A s \in Sessions :
        /\ \A p \in Paths :
            AcquireCallReads(s, p) =>
                LET blocked == LiveLockOfOther(locks, s, p, now) IN
                /\ (call'[s].ret = "False") <=> blocked
                /\ blocked => (pc'[s] = "idle" /\ locks' = locks)
                /\ ~blocked =>
                    /\ pc'[s] = "api_acquire_save"
                    /\ lk'[s][p] = [session_id |-> s, timestamp |-> now]
                    /\ \A q \in Paths \ {p} :
                        lk'[s][q] = IF locks[q] # NoLock /\ now - locks[q].timestamp > 300
                                    THEN NoLock ELSE locks[q]
        /\ (pc[s] = "api_acquire_save" /\ pc'[s] = "idle") =>
                (locks' = lk[s] /\ call'[s].ret = "True")]_vars

\* an acquire has returned True by replacing the expired lock of another session
C4_Witness ==
    \E s \in Sessions, o \in Sessions, p \in Paths :
        /\ s # o
        /\ call[o] = [op |-> "acquire", path |-> p, ret |-> "True"]
        /\ call[s] = [op |-> "acquire", path |-> p, ret |-> "True"]
        /\ locks[p] = [session_id |-> s, timestamp |-> now]
        /\ now > EXPIRY

\* C5: check(s, p) returns the holder id iff p is held by another session whose
\* lock is inside the 300 s expiry window; a lock taken at t and never released
\* is not reported at t + 301.
C5_CheckHonoursExpiry ==
    [][\A s \in Sessions, p \in Paths :
        (/\ pc[s] = "idle"
         /\ call'[s] # call[s]
         /\ call'[s].op = "check" /\ call'[s].path = p) =>
            IF LiveLockOfOther(locks, s, p, now)
            THEN call'[s].ret = locks[p].session_id
            ELSE call'[s].ret = None]_vars

\* C6: release(s, p) removes the entry for p, and nothing else, only when the
\* table it read records s as holder of p; when p is free or held by another
\* session it writes nothing and the table is left unchanged.
C6_ReleaseContract ==
    [][\A s \in Sessions :
        /\ \A p \in Paths :
            ReleaseCallReads(s, p) =>
                /\ locks' = locks
                /\ IF locks[p] # NoLock /\ locks[p].session_id = s
                   THEN /\ pc'[s] = "api_release_save"
                        /\ lk'[s][p] = NoLock
                        /\ \A q \in Paths \ {p} : lk'[s][q] = locks[q]
                   ELSE /\ pc'[s] = "idle"
                        /\ call'[s].ret = "unheld"
        /\ (pc[s] = "api_release_save" /\ pc'[s] = "idle") => locks' = lk[s]]_vars

\* a release of a path held by another session has left that lock in place
C6_Witness ==
    \E s \in Sessions, o \in Sessions, p \in Paths :
        /\ s # o
        /\ call[s] = [op |-> "release", path |-> p, ret |-> "unheld"]
        /\ locks[p] # NoLock /\ locks[p].session_id = o

\* session s's command returns in this step without having reached its
\* filesystem call
ReturnsUnperformed(s) ==
    /\ pc[s] \in {"exists", "check", "acquire", "release", "release_save"}
    /\ ret[s] \notin {"ok", "error"}
    /\ pc'[s] = "idle"

\* the table records another session as holder of a path the command names
OtherHoldsTarget(s) ==
    \E p \in Targets(s) : locks[p] # NoLock /\ locks[p].session_id # s

C8_NoLockLeftWhenStopped ==
    [][\A s \in Sessions :
        (/\ pc[s] \in {"op", "release", "release_save"}
         /\ ret[s] # "busy_destination"
         /\ pc'[s] = "idle") =>
            \A p \in Targets(s) :
                ~(locks'[p] # NoLock /\ locks'[p].session_id = s)]_vars

C10_NoAdjacentDuplicates ==
    \A sid \in Sessions :
        \A i \in 1..(Len(histFile[sid]) - 1) :
            histFile[sid][i] # histFile[sid][i + 1]

\* ---------------------------------------------------------------------------
\* C11: get_current called twice for the same process id returns the same
\* session id, and the second call creates nothing; two distinct process ids
\* get two distinct session ids.  The first call of a process is the one of
\* main.py:45 (StartSession); every later call must return what that one
\* returned and leave the history files alone.
\* ---------------------------------------------------------------------------
C11_GetCurrentIdempotent ==
    [][\A p \in Pids :
         ApiGetCurrent(p) =>
           /\ out'[p] = first_session[p]
           /\ session_files' = session_files
           /\ \A q \in Pids \ {p} : out'[p] # first_session[q]]_vars

\* ---------------------------------------------------------------------------
\* C12: create_new always returns an id that no existing session has: after
\* any sequence of create_new, get_current and cleanup_expired calls by one
\* or several processes, the id that `newterm` gets is not the id of a session
\* that still has a history file, so no history file is replaced by an empty
\* one.
\* ---------------------------------------------------------------------------
C12_CreateNewNeverReuses ==
    [][\A p \in Pids :
         InputNewterm(p) /\ out'[p] # "FileNotFoundError" =>
           out'[p] \notin list_sessions(cwd[p])]_vars

C14_SwitchListedTouchesAndRecords ==
    [][\A p \in Pids : \A session_id \in SwitchTargets :
         InputSwitch(p, session_id) /\ session_id \in list_sessions(cwd[p]) =>
           /\ out'[p] = "True"
           /\ current_session'[p] = session_id
           /\ current_session_file'[cwd'[p]] = session_id
           /\ session_id \in Keys(session_info_file'[cwd[p]].data)
           /\ session_info_file'[cwd[p]].data[session_id].last_accessed = now]_vars

\* ---------------------------------------------------------------------------
\* C15: starting the Session Store when no persisted state exists (no pointer,
\* no metadata file, no history file) completes without a fault and leaves
\* exactly one new session, which has an empty history, a metadata entry, and
\* is recorded as current.
\* ---------------------------------------------------------------------------
C15_FreshStartCompletes ==
    [][\A p \in Pids :
         LET d == cwd[p] IN
         /\ Launch(p)
         /\ current_session_file[d] = Missing
         /\ ~session_info_file[d].exists
         /\ list_sessions(d) = {}
         => /\ ppc'[p] = "constructed"
            /\ \E session_id \in Keys(session_files'[d]) :
                 /\ Keys(session_files'[d]) = {session_id}
                 /\ session_files'[d][session_id] = <<>>
                 /\ session_id \in Keys(session_info_file'[d].data)
                 /\ current_session_file'[d] = session_id]_vars

\* ---------------------------------------------------------------------------
\* C16: in every reachable state of the persisted stores, every session id
\* that has a history file, or that appears as holder in the lock table, also
\* has an entry in the session-metadata table of the same data directory.
\* Stated for the states in which every construction of a SessionManager has
\* completed (the construction that fails is the subject of C15).
\* ---------------------------------------------------------------------------
C16_HistoryAndLocksHaveMetadata ==
    (\A p \in Pids : ppc[p] # "crashed") =>
        /\ \A d \in Dirs : \A session_id \in list_sessions(d) :
               session_id \in Keys(session_info_file[d].data)
        /\ \A path \in Paths :
               locks[path] # NoLock =>
                   locks[path].session_id \in Keys(session_info_file["home"].data)

\* ---------------------------------------------------------------------------
\* C17: every access to a session's working directory (get_details,
\* get_working_directory, switch) revalidates it, so that a directory that no
\* longer exists is never returned as a session's working directory (the
\* process's current directory is returned instead).
\* ---------------------------------------------------------------------------
C17_WorkingDirectoryRevalidated ==
    [][\A p \in Pids : \A session_id \in SwitchTargets :
         /\ ApiGetWorkingDirectory(p, session_id) => out'[p] \in dirs
         /\ ApiGetDetails(p, session_id) =>
              get_session_details(session_info[p], session_id, cwd[p]).working_directory
                  \in dirs \cup {NoDetails.working_directory}
         /\ InputSwitch(p, session_id) => cwd'[p] \in dirs]_vars

\* ---------------------------------------------------------------------------
\* C18: every command that succeeds in changing the process working directory
\* is followed by a Session Store update that records the new directory for
\* the current session, whichever handler dispatched it.
\* ---------------------------------------------------------------------------
C18_DirectoryChangeIsRecorded ==
    [][\A p \in Pids : \A line \in CommandLines :
         InputCommand(p, line) /\ cwd'[p] # cwd[p] =>
           /\ current_session[p] \in Keys(session_info'[p])
           /\ session_info'[p][current_session[p]].working_directory = cwd'[p]]_vars

\* ---------------------------------------------------------------------------
\* C19: an input line is appended to the history of the current session if
\* and only if it was processed and is not a session/meta-command (new
\* session, list sessions, switch, history, stats, conversation toggle, help,
\* clear, exit): a meta-command leaves every history file as it was, and any
\* other processed line is the last entry of the history of the current
\* session afterwards.
\* ---------------------------------------------------------------------------
C19_AppendedIffNotMeta ==
    [][\A p \in Pids :
         /\ \A line \in CommandLines :
              InputCommand(p, line) =>
                IF line \in {<<"help">>, <<"clear">>, <<"newterm">>, <<"sessions">>,
                             <<"history">>, <<"stats">>}
                THEN session_files' = session_files
                ELSE LET history == session_files'[cwd'[p]][current_session[p]] IN
                     history # <<>> /\ history[Len(history)] = line
         /\ \A line \in ShowLines : InputShow(p, line) => session_files' = session_files
         /\ \A word \in ToggleWords : InputToggle(p, word) => session_files' = session_files]_vars

\* ---------------------------------------------------------------------------
\* C20: the interactive loop ends only on an exit phrase (exit, quit, bye) or
\* on the end of the input stream, and in both cases the session-binding file
\* of the process has been removed before the loop ends; anything else leaves
\* the process at its prompt.
\* ---------------------------------------------------------------------------
C20_LoopEndsOnlyOnExitWithBindingRemoved ==
    [][\A p \in Pids :
         AtPrompt(p) /\ ~AtPrompt(p)' =>
           /\ (\E word \in ExitPhrases : InputExit(p, word)) \/ Eof(p)
           /\ ppc'[p] = "ended"
           /\ \A d \in Dirs : process_session_file'[d][p] = Missing]_vars

\* ---------------------------------------------------------------------------
\* C21: in command mode, processing "ls" yields direct_command, "create folder
\* test" yields simple_folder_creation with the extracted name test, "what is
\* my cpu usage?" yields system_query, "hello" yields chat, and the empty
\* input yields empty; _classify_input gives the four labels.


C21_Examples ==
    /\ _classify_input(<<"ls">>) = "direct_command"
    /\ _classify_input(<<"create", "folder", "test">>) = "simple_folder_creation"
    /\ _classify_input(<<"what", "is", "my", "cpu", "usage?">>) = "system_query"
    /\ _classify_input(<<"hello">>) = "chat"
    /\ [][\A p \in ReplPids :
            (Process(p) /\ ~conversation_mode[p]) =>
                /\ user_input = <<"ls">> => reply'.type = "direct_command"
                /\ user_input = <<"create", "folder", "test">> =>
                      /\ reply'.type = "simple_folder_creation"
                      /\ reply'.command = <<"mkdir", "test">>
                /\ user_input = <<"what", "is", "my", "cpu", "usage?">> =>
                      reply'.type = "system_query"
                /\ user_input = <<"hello">> => reply'.type = "chat"
                /\ user_input = <<>> => reply'.type = "empty"]_vars

\* "create folder test" was processed in command mode by the fast path
C21_Witness ==
    /\ user_input = <<"create", "folder", "test">>
    /\ reply.type = "simple_folder_creation"
    /\ reply.command = <<"mkdir", "test">>
    /\ \A p \in ReplPids : ~conversation_mode[p]

\* ---------------------------------------------------------------------------
\* C22: for every input the classification is the label of the first stage,
\* in the order empty, conversation toggle, bare known command, direct-command
\* pattern, simple creation, system query, file operation, natural language,
\* chat, unknown, whose test the input passes; an input that matches a
\* simple-creation pattern is never labelled system_query or file_operation,
\* and an input that passes the natural-language and the chat test and the
\* test of no earlier stage is labelled natural_language.
Classification(line) ==
    IF process_input(line, FALSE).type = "empty" THEN "empty"
    ELSE _classify_input(line)

\* the tests of the ten stages, in the order of the chain
StageTests(line) ==
    <<Len(line) = 0,
      _is_conversation_toggle(line),
      Len(line) = 1 /\ line[1] \in SingleWordCommands,
      MatchesDirectPattern(line),
      _is_simple_folder_creation(line) \/ _is_simple_file_creation(line),
      _is_system_query(line),
      _is_file_operation(line),
      _is_natural_language(line),
      _is_chat_input(line),
      TRUE>>
StageLabels ==
    <<{"empty"}, {"conversation_toggle"}, {"direct_command"}, {"direct_command"},
      {"simple_folder_creation", "simple_file_creation"}, {"system_query"},
      {"file_operation"}, {"natural_language"}, {"chat"}, {"unknown"}>>
FirstStage(line) ==
    CHOOSE i \in 1..10 :
        StageTests(line)[i] /\ \A j \in 1..(i - 1) : ~StageTests(line)[j]

C22_FirstStageWins ==
    /\ Classification(user_input) \in StageLabels[FirstStage(user_input)]
    /\ StageTests(user_input)[5] =>
          Classification(user_input) \notin {"system_query", "file_operation"}
    /\ (/\ _is_natural_language(user_input)
        /\ _is_chat_input(user_input)
        /\ FirstStage(user_input) >= 8) =>
          Classification(user_input) = "natural_language"

\* a line that passes the natural-language and the chat test and no earlier
\* one was handled as natural language in command mode
C22_Witness ==
    /\ _is_natural_language(user_input)
    /\ _is_chat_input(user_input)
    /\ FirstStage(user_input) = 8
    /\ reply.type = "natural_language"
    /\ \A p \in ReplPids : ~conversation_mode[p]

\* C22 as stated: every input that passes both the natural-language and the
\* chat test is labelled natural_language
C22_BothTestsMeansNaturalLanguage ==
    (_is_natural_language(user_input) /\ _is_chat_input(user_input)) =>
        Classification(user_input) = "natural_language"

C23_SecondCreationReportsExisting ==
    [][\A s \in Sessions :
        (/\ cmd[s] = "mkdir"
         /\ \A o \in Sessions \ {s} : pc[o] = "idle" /\ result[o] = "none"
         /\ pc[s] = "op"
         /\ args[s][1] \in fs
         /\ pc'[s] = "release") =>
            ret'[s] # "ok"]_vars

\* ---------------------------------------------------------------------------
\* C25: after every command processed for a session, the last-accessed time
\* of that session in the Session Store is at least the time the command was
\* entered; stated for a terminal that stays in its directory and whose
\* session has its metadata in the store of that directory.
C25_CommandTouchesLastAccessed ==
    [][\A p \in ReplPids : \A line \in CommandLines :
        (/\ InputCommand(p, line)
         /\ cwd'[p] = cwd[p]
         /\ current_session[p] \in Keys(session_info_file[cwd[p]].data)) =>
            LET stored == session_info_file'[cwd[p]] IN
            /\ current_session[p] \in Keys(stored.data)
            /\ stored.data[current_session[p]].last_accessed >= now]_vars

\* ---------------------------------------------------------------------------
\* C26: cleanup_old_sessions(d) removes the history file and the metadata
\* entry of exactly the sessions whose stored last-accessed time is more than
\* d days in the past, returns their number, and leaves the history and the
\* metadata of every other session unchanged.
C26_CleanupRemovesExactlyTheExpired ==
    [][\A p \in Pids :
        ApiCleanup(p) =>
            LET d == cwd[p]
                stored == session_info_file[d].data
                expired == {sid \in Keys(stored) :
                               stored[sid].last_accessed < now - CleanupAge}
            IN
            /\ session_files'[d] = Del(session_files[d], expired)
            /\ session_info_file'[d].data = Del(stored, expired)
            /\ out'[p] = ToString(Cardinality(expired))]_vars

\* ---------------------------------------------------------------------------
\* C27: the stored history of a session only ever grows at its end: whatever
\* appends the processes make, each stored history of a session is a prefix
\* of the one stored next.
IsPrefix(earlier, later) ==
    Len(earlier) <= Len(later) /\ SubSeq(later, 1, Len(earlier)) = earlier

C27_HistoryOnlyGrowsAtItsEnd ==
    [][\A sid \in Sessions : IsPrefix(histFile[sid], histFile'[sid])]_vars

\* ---------------------------------------------------------------------------
\* C28: the read-only commands pwd, ls, cat, find and grep leave the lock
\* table unchanged and never return a busy text, whatever locks the table
\* holds.
C28_ReadsIgnoreLocks ==
    [][\A s \in Sessions :
        (\/ \E c \in ReadOnlyCmds : \E a \in ReadArgLists(c) : StartReadOnly(s, c, a)
         \/ FinishReadOnly(s)) =>
            /\ locks' = locks
            /\ result'[s] \notin BusyTexts]_vars

\* a session is inside `cat` of a path, past the point where a mutating
\* command would have been refused, while another session holds the lock on
\* that path during its mkdir
C28_Witness ==
    \E s \in Sessions, o \in Sessions :
        /\ s # o
        /\ pc[s] = "read" /\ cmd[s] = "cat"
        /\ pc[o] = "op"
        /\ args[o] = args[s]
        /\ locks[args[s][1]] # NoLock /\ locks[args[s][1]].session_id = o

\* ---------------------------------------------------------------------------
\* C29: when the resolver raises, cannot be reached, or replies with a text
\* that is not JSON, interpret_command returns a record that holds a command
\* or a list of commands (the local table after a fault, pattern extraction
\* for a text), and the processor returns a structured result: no fault
\* leaves interpret_command.
C29_ResolverFaultsAreAbsorbed ==
    [][\A p \in ReplPids :
        (ProcessGiven(p) /\ response.kind \in {"raises", "unavailable", "text"}) =>
            LET interpreted == interpret_command_given(user_input, response) IN
            /\ interpreted.key \in {"command", "commands"}
            /\ (response.kind # "text" /\ ~_is_file_creation_request(user_input)) =>
                  interpreted.command = Text(_fallback_interpretation(user_input))
            /\ (response.kind = "text" /\ ~_is_file_creation_request(user_input)) =>
                  interpreted = _extract_command_from_text(Strip(response.text))
            /\ reply'.type \in
                 {"empty", "conversation_toggle", "direct_command",
                  "simple_folder_creation", "simple_file_creation", "system_query",
                  "file_operation", "natural_language", "chat", "help", "unknown",
                  "error"}
            /\ response.kind # "text" =>
                  reply' = process_input(user_input, conversation_mode[p])]_vars

\* "what is my cpu usage?" was processed while the resolver raised: the local
\* table gave the command cpu
C29_Witness ==
    /\ user_input = <<"what", "is", "my", "cpu", "usage?">>
    /\ response.kind = "raises"
    /\ reply.type = "system_query"
    /\ reply.command = <<"cpu">>

\* ---------------------------------------------------------------------- C30
\* C30: when the write of the lock table fails during acquire(s, p) and no
\* other session holds p, acquire returns True without an error and the
\* lock table on disk is the one that was there before the call.  Stated for a
\* call whose table on disk is still the one the call read, with no other
\* session inside the lock manager.
C30_FailedSaveKeepsTheTable ==
    [][\A s \in Sessions :
          (/\ ApiAcquireSaveFails(s)
           /\ \A t \in Sessions \ {s} : pc[t] = "idle"
           /\ ~LockedByOther(locks, s, call[s].path)
           /\ lk[s] = _acquire_lock(_load_locks(locks), s, call[s].path, now).table)
          => /\ call'[s].ret = "True"
             /\ locks' = locks]_vars

C32_MutationOnlyUnderOwnLock ==
    [][\A s \in Sessions :
         (/\ \/ OpOk(s)
             \/ \E c \in {"mkdir", "touch"}, target \in Paths : CreateWithPath(s, c, target)
          /\ \A o \in Sessions \ {s} : pc[o] = "idle" /\ result[o] = "none") =>
            \A p \in (fs' \ fs) \cup (fs \ fs') :
                locks[p] # NoLock /\ locks[p].session_id = s]_vars

\* ---------------------------------------------------------------------- C33
\* C33: when session A acquired the lock on p and stopped without releasing
\* it, and session B keeps retrying a mutating command on p and runs nothing
\* else, then once more than 300 s have passed since the acquisition a command
\* of B on p is performed.
C33_RetryGoesThroughAfterExpiry ==
    \A p \in Paths :
        (/\ locks[p].session_id = "A"
         /\ now - locks[p].timestamp > EXPIRY)
        ~> (pc["B"] = "op" /\ args["B"] = <<p>>)

\* ---------------------------------------------------------------------- C34
\* C34: no two terminal processes that are at their prompt have the same
\* current session, whatever start-ups, newterm and switch commands were run.
C34_OneProcessPerSession ==
    \A p \in Pids, q \in Pids :
        (p # q /\ AtPrompt(p) /\ AtPrompt(q)) =>
            current_session[p] # current_session[q]

\* ---------------------------------------------------------------------- C35
\* C35: a session/meta-command entered at the prompt (newterm, sessions,
\* switch <id>, history, stats, help, exit) is not passed to run_command and
\* so is not forwarded to the host shell.
C35_MetaCommandsStayOutOfTheExecutor ==
    [][\A p \in ReplPids : \A line \in MetaLines :
         InputMeta(p, line) => ~PassedToExecutor(reply')]_vars

\* ---------------------------------------------------------------------- C36
\* the command names of the single-word list and of direct_command_patterns
KnownCommandNames == SingleWordCommands \cup ArgPatterns \cup BarePatterns

\* C36: an input classified as direct_command has a known command name as
\* its first word; an input whose first word only begins with a command name
\* ("memory usage", "dateline") is not classified as direct_command.
C36_DirectCommandStartsWithCommandName ==
    reply.type = "direct_command" => user_input[1] \in KnownCommandNames

\* ---------------------------------------------------------------------- C37
\* C37: the update_working_directory that follows a `cd` of a terminal changes
\* only the entry of its own session in data/session_info.json: every entry
\* of another session that the file held before the call is in the file
\* afterwards, unchanged.  Stated for a terminal that stays in its directory.
C37_UpdateKeepsOtherEntries ==
    [][\A p \in Pids : \A line \in CdLines :
         (InputCommand(p, line) /\ cwd'[p] = cwd[p]) =>
            LET before == session_info_file[cwd[p]].data
                after == session_info_file'[cwd[p]].data IN
            \A session_id \in Keys(before) \ {current_session[p]} :
                /\ session_id \in Keys(after)
                /\ after[session_id] = before[session_id]]_vars

\* ---------------------------------------------------------------------- C38
\* the inputs that are, ignoring case, one of the four toggle words
IsToggleInput(line) ==
    line \in {<<"chat">>, <<"CHAT">>, <<"Talk">>, <<"converse">>, <<"conversation">>}

\* C38: conversation mode changes only when the whole input is, ignoring
\* case, one of chat, conversation, talk, converse; every such input flips the
\* mode, the chat context is empty after an input that enabled it, and every
\* other input leaves the mode as it was.
C38_OnlyToggleWordsFlipTheMode ==
    [][\A p \in ReplPids : \A line \in ToggleLines :
         Read(p, line) =>
            IF IsToggleInput(line)
            THEN /\ conversation_mode'[p] = ~conversation_mode[p]
                 /\ conversation_mode'[p] => chat_context' = <<>>
                 /\ ~conversation_mode'[p] => chat_context' = chat_context
            ELSE conversation_mode'[p] = conversation_mode[p]]_vars

\* conversation mode was disabled by a toggle word typed with a capital,
\* after a chat in conversation mode
C38_Witness ==
    /\ user_input = <<"Talk">>
    /\ \A p \in ReplPids : ~conversation_mode[p]
    /\ reply.type = "conversation_toggle"
    /\ \E i \in 1..Len(chat_context) : chat_context[i] = UserSaid(<<"ls">>)
====
